---- MODULE Spec2Model ----
(***************************************************************************)
(* Model of pykiso's double-thread auxiliary runtime                       *)
(* (src/src/pykiso/interfaces/double_auxiliary.py):                        *)
(*   DoubleThreadAuxiliary  the worker-thread base (lock, stop flags,      *)
(*                          queues, command worker, reception worker)      *)
(*   ComAux                 the simple channel auxiliary                   *)
(*   ProxyAuxiliary         the proxy (broker) auxiliary                   *)
(* One auxiliary object is under study at a time; `kind` names its class   *)
(* and selects the hooks the base class dispatches to.                     *)
(***************************************************************************)
EXTENDS Integers, Sequences, FiniteSets, TLC

(***************************************************************************)
(* Bounds of the model.                                                    *)
(***************************************************************************)
MaxCmds == 2        \* run_command submissions by test code
MaxArrivals == 1    \* payloads the outside world puts on the transport

Payloads == {"a", "b"}          \* raw messages
None == "None"                  \* Python's None
NoCmd == [cmd |-> "none", data |-> None, id |-> 0]

VARIABLES
    kind,         \* class of the auxiliary: "ComAux" or "ProxyAuxiliary"
    lock,         \* self.lock (RLock): [owner, count]
    stop_tx,      \* self.stop_tx (Event)
    stop_rx,      \* self.stop_rx (Event)
    queue_in,     \* self.queue_in: commands (cmd_in)
    used_queue,   \* self.used_queue, the queue_tx object: replies
    queue_out,    \* self.queue_out: inbound events
    is_instance,  \* self.is_instance
    tx_threads,   \* every command worker ever started; self.tx_thread is the last
    rx_threads,   \* every reception worker ever started; self.rx_thread is the last
    channel,      \* the transport self.channel: [open, rx, tx]
    caller,       \* position of each thread of test code
    budget,       \* how many calls of each kind test code may still issue
    raised,       \* history: <<operation, exception>> of every call that raised
    next_id,      \* history: number of commands enqueued so far
    observed,     \* history: [call, reply, val] of every run_command that returned
    aux_list,     \* ProxyAuxiliary.__init__: the subscriber references given
    ctor,         \* ProxyAuxiliary.__init__: "init", "ok" or the exception raised
    proxy_channels, \* self.proxy_channels: the subscribers' connectors, in order
    conn_in,      \* queue_in of each subscriber's connector (bound channel)
    conn_out,     \* queue_out of each subscriber's connector (bound channel)
    relayed,      \* history: what the proxy took from each connector's queue_in
    received,     \* history: what each subscriber took from its connector's queue_out
    sub_aux,      \* each subscriber auxiliary: [is_instance, stop_tx, stop_rx, workers]
    sub_sent,     \* history: per connector, the payloads its subscriber has sent, in order
    pass_start,   \* history: per connector, the place in `relayed` its head entry had coming
                  \* when the current relay pass began (0: its queue_in was empty)
    phys_rcv,     \* history: the payloads the reception worker received from the transport
    returned,     \* history: [op, ev, val] of every delete_instance, wait_and_get_report
                  \* and receive_message that returned
    submitted,    \* history: the commands put on queue_in, in order
    dequeued,     \* history: [id, t] of every command a command worker t took from queue_in
    sends,        \* history: [id, data, ok] of every cc_send call of ComAux._run_command
    daq_list,     \* a DaqList object, with the arguments and the result of create_odts
    daq           \* a Daq object: [acq_register, acq_set, odt_set, selected_variables]

flagVars == <<stop_tx, stop_rx>>
queueVars == <<queue_in, used_queue, queue_out>>
threadVars == <<tx_threads, rx_threads>>
histVars == <<raised, next_id, observed>>
ctorVars == <<aux_list, ctor, proxy_channels>>
connVars == <<conn_in, conn_out, relayed, received, phys_rcv, pass_start, sub_sent, sub_aux>>
logVars == <<returned, submitted, dequeued, sends>>
daqVars == <<daq_list, daq>>
vars == <<kind, lock, stop_tx, stop_rx, queue_in, used_queue, queue_out,
          is_instance, tx_threads, rx_threads, channel, caller, budget,
          raised, next_id, observed, aux_list, ctor, proxy_channels,
          conn_in, conn_out, relayed, received, phys_rcv, pass_start, sub_sent, sub_aux,
          returned, submitted, dequeued, sends, daq_list, daq>>

(***************************************************************************)
(* queue.Queue: an unbounded FIFO.                                         *)
(***************************************************************************)
\* faulty variant of QueuePut: a stack, the newest entry is taken first
QueuePutFront(q, x) == <<x>> \o q

QueuePut(q, x) == Append(q, x)
QueueEmpty(q) == q = <<>>

(***************************************************************************)
(* threading.RLock: the owner may take it again.                           *)
(***************************************************************************)
LockFree(c) == lock.owner = 0 \/ lock.owner = c
Acquire(c) == [owner |-> c, count |-> lock.count + 1]
Release == IF lock.count = 1 THEN [owner |-> 0, count |-> 0]
           ELSE [owner |-> lock.owner, count |-> lock.count - 1]
\* an exception that leaves every `with self.lock:` block of the caller
ReleaseAll == [owner |-> 0, count |-> 0]

Callers == DOMAIN caller
IdleCaller == [pc |-> "idle", nested |-> FALSE, cmd |-> 0, blocking |-> TRUE]

Goto(c, pc) == [caller EXCEPT ![c].pc = pc]
Return(c) == [caller EXCEPT ![c] = IdleCaller]
Spend(op) == [budget EXCEPT ![op] = @ - 1]
Raise(op, exc) == raised \cup {<<op, exc>>}

\* self.tx_thread / self.rx_thread: the thread object of the last create_instance
\* (0: the attribute does not exist yet)
tx_thread == Len(tx_threads)
rx_thread == Len(rx_threads)

(***************************************************************************)
(* The transport (CChannel), an external collaborator: open, close,        *)
(* cc_send and cc_receive may raise.                                       *)
(***************************************************************************)
\* a frame on the transport: the payload, and (history) who sent it: 0 the outside
\* world, otherwise the auxiliary
Frame(msg, src) == [msg |-> msg, src |-> src]

\* cc_send returns: the frame is on the wire, and a loopback transport hands it
\* back to cc_receive
ChannelSend(frame) ==
    [channel EXCEPT !.tx = Append(@, frame),
                    !.rx = IF channel.loop THEN Append(@, frame) ELSE @]

(***************************************************************************)
(* DoubleThreadAuxiliary.create_instance                                   *)
(***************************************************************************)
CreateEnter(c) ==
    /\ caller[c].pc = "idle"
    /\ budget.create > 0
    /\ LockFree(c)
    /\ lock' = Acquire(c)
    /\ caller' = Goto(c, "ci_hook")
    /\ budget' = Spend("create")
    /\ UNCHANGED logVars
    /\ UNCHANGED <<daqVars, ctorVars, connVars, kind, flagVars, queueVars, is_instance,
                   threadVars, channel, histVars>>

\* ComAux._create_auxiliary_instance / ProxyAuxiliary._create_auxiliary_instance:
\* channel.open() returns
CreateOpenOk(c) ==
    /\ caller[c].pc = "ci_hook"
    /\ channel' = [channel EXCEPT !.open = TRUE]
    /\ caller' = Goto(c, "ci_spawn")
    /\ UNCHANGED logVars
    /\ UNCHANGED <<daqVars, ctorVars, connVars, kind, lock, flagVars, queueVars, is_instance,
                   threadVars, budget, histVars>>

\* channel.open() raises: the hook calls self.stop() before it returns False
CreateOpenFail(c) ==
    /\ caller[c].pc = "ci_hook"
    /\ caller' = [caller EXCEPT ![c].pc = "st_cmd", ![c].nested = TRUE]
    /\ UNCHANGED logVars
    /\ UNCHANGED <<daqVars, ctorVars, connVars, kind, lock, flagVars, queueVars, is_instance,
                   threadVars, channel, budget, histVars>>

NewTx == [pc |-> "loop", cmd |-> NoCmd, i |-> 0]

\* faulty variant of CreateSpawn: the stop flags are cleared for the new workers
CreateSpawnClear(c) ==
    /\ caller[c].pc = "ci_spawn"
    /\ stop_tx' = FALSE
    /\ stop_rx' = FALSE
    /\ rx_threads' = Append(rx_threads, "loop")
    /\ tx_threads' = Append(tx_threads, NewTx)
    /\ caller' = Goto(c, "ci_mark")
    /\ UNCHANGED logVars
    /\ UNCHANGED <<daqVars, ctorVars, connVars, kind, lock, queueVars, is_instance, channel,
                   budget, histVars>>

\* the two Thread objects, rx_thread.start(), tx_thread.start()
CreateSpawn(c) ==
    /\ caller[c].pc = "ci_spawn"
    /\ rx_threads' = Append(rx_threads, "loop")
    /\ tx_threads' = Append(tx_threads, NewTx)
    /\ caller' = Goto(c, "ci_mark")
    /\ UNCHANGED logVars
    /\ UNCHANGED <<daqVars, ctorVars, connVars, kind, lock, flagVars, queueVars, is_instance,
                   channel, budget, histVars>>

\* self.is_instance = True; return created
CreateMark(c) ==
    /\ caller[c].pc = "ci_mark"
    /\ is_instance' = TRUE
    /\ lock' = Release
    /\ caller' = Return(c)
    /\ UNCHANGED logVars
    /\ UNCHANGED <<daqVars, ctorVars, connVars, kind, flagVars, queueVars, threadVars, channel,
                   budget, histVars>>

\* `if not created: raise AuxiliaryCreationError(self.name)`
CreateRaise(c) ==
    /\ caller[c].pc = "ci_raise"
    /\ lock' = ReleaseAll
    /\ caller' = Return(c)
    /\ raised' = Raise("create_instance", "AuxiliaryCreationError")
    /\ UNCHANGED logVars
    /\ UNCHANGED <<daqVars, ctorVars, connVars, kind, flagVars, queueVars, is_instance,
                   threadVars, channel, budget, next_id, observed>>

(***************************************************************************)
(* DoubleThreadAuxiliary.delete_instance, with the hooks                   *)
(* ComAux._delete_auxiliary_instance / ProxyAuxiliary._delete_...: both    *)
(* catch what channel.close() raises and return True.                      *)
(***************************************************************************)
\* faulty variant of DeleteHook: what channel.close() raises is not caught
DeleteHookPropagates(close_raises) ==
    IF close_raises THEN [ret |-> None, exc |-> "Exception"]
    ELSE [ret |-> "True", exc |-> "none"]

\* the hooks _delete_auxiliary_instance: what they return, and the exception
\* that leaves them ("none": they return)
DeleteHook(close_raises) == [ret |-> "True", exc |-> "none"]

DeleteInstance(c) ==
    /\ caller[c].pc = "idle"
    /\ budget.delete > 0
    /\ LockFree(c)
    /\ \E close_raises \in BOOLEAN :
          LET deleted == DeleteHook(close_raises) IN
          /\ channel' = [channel EXCEPT !.open = IF close_raises THEN @ ELSE FALSE]
          /\ IF deleted.exc # "none"
             THEN /\ raised' = Raise("delete_instance", deleted.exc)
                  /\ UNCHANGED <<is_instance, returned>>
             ELSE /\ is_instance' = FALSE
                  /\ returned' = Append(returned, [op |-> "delete_instance", ev |-> <<>>,
                                                   val |-> deleted.ret])
                  /\ UNCHANGED raised
    /\ budget' = Spend("delete")
    /\ UNCHANGED <<submitted, dequeued, sends>>
    /\ UNCHANGED <<daqVars, ctorVars, connVars, kind, lock, flagVars, queueVars, threadVars,
                   caller, next_id, observed>>

(***************************************************************************)
(* DoubleThreadAuxiliary.run_command: the submission, then the wait on the *)
(* reply sink, both under the lock.                                        *)
(***************************************************************************)
\* faulty variant of Submit: the lock is taken whoever holds it
SubmitUnlocked(c, cmd, data, blocking, pc) ==
    /\ lock' = Acquire(c)
    /\ queue_in' = QueuePut(queue_in, [cmd |-> cmd, data |-> data, id |-> next_id + 1])
    /\ next_id' = next_id + 1
    /\ submitted' = Append(submitted, [cmd |-> cmd, data |-> data, id |-> next_id + 1])
    /\ caller' = [caller EXCEPT ![c].pc = pc, ![c].cmd = next_id + 1,
                                ![c].blocking = blocking]

Submit(c, cmd, data, blocking, pc) ==
    /\ LockFree(c)
    /\ lock' = Acquire(c)
    /\ queue_in' = QueuePut(queue_in, [cmd |-> cmd, data |-> data, id |-> next_id + 1])
    /\ next_id' = next_id + 1
    /\ submitted' = Append(submitted, [cmd |-> cmd, data |-> data, id |-> next_id + 1])
    /\ caller' = [caller EXCEPT ![c].pc = pc, ![c].cmd = next_id + 1,
                                ![c].blocking = blocking]

\* self.used_queue.get(blocking, timeout_in_s): the oldest reply, or queue.Empty
\* (at once when not blocking, after timeout_in_s otherwise), which gives None
GetReply(c) ==
    IF QueueEmpty(used_queue)
    THEN /\ observed' = Append(observed, [call |-> caller[c].cmd, reply |-> 0, val |-> None])
         /\ UNCHANGED used_queue
    ELSE /\ observed' = Append(observed, [call |-> caller[c].cmd,
                                          reply |-> Head(used_queue).id,
                                          val |-> Head(used_queue).val])
         /\ used_queue' = Tail(used_queue)

RunCommand(c, cmd, data, blocking) ==
    /\ caller[c].pc = "idle"
    /\ budget.cmd > 0
    /\ kind = "ComAux"
    /\ Submit(c, cmd, data, blocking, "rc_wait")
    /\ budget' = Spend("cmd")
    /\ UNCHANGED <<returned, dequeued, sends>>
    /\ UNCHANGED <<daqVars, ctorVars, connVars, kind, flagVars, used_queue, queue_out,
                   is_instance, threadVars, channel, raised, observed>>

\* faulty variant of RunWait: the get has no timeout
RunWaitForever(c) ==
    /\ caller[c].pc = "rc_wait"
    /\ ~QueueEmpty(used_queue)
    /\ GetReply(c)
    /\ lock' = Release
    /\ caller' = Return(c)
    /\ UNCHANGED logVars
    /\ UNCHANGED <<daqVars, ctorVars, connVars, kind, flagVars, queue_in, queue_out, is_instance,
                   threadVars, channel, budget, raised, next_id>>

RunWait(c) ==
    /\ caller[c].pc = "rc_wait"
    /\ GetReply(c)
    /\ lock' = Release
    /\ caller' = Return(c)
    /\ UNCHANGED logVars
    /\ UNCHANGED <<daqVars, ctorVars, connVars, kind, flagVars, queue_in, queue_out, is_instance,
                   threadVars, channel, budget, raised, next_id>>

(***************************************************************************)
(* DoubleThreadAuxiliary.wait_and_get_report and ComAux.receive_message.   *)
(* Neither takes the lock.                                                 *)
(***************************************************************************)
\* faulty variant of QueueGet: the entry is read but stays in the queue
QueuePeek(q) == [item |-> Head(q), rest |-> q]

\* faulty variant of QueueGet: the newest entry is taken
QueueGetNewest(q) == [item |-> q[Len(q)], rest |-> SubSeq(q, 1, Len(q) - 1)]

\* queue.Queue.get on a queue that is not empty
QueueGet(q) == [item |-> Head(q), rest |-> Tail(q)]

\* timeout_in_s: a number of seconds, or None (get waits until an entry comes)
Timeouts == {"finite", None}

\* `self.queue_out.get(blocking, timeout_in_s)`, queue.Empty giving None: the
\* optional result is <<>> or <<event>>. With blocking and no timeout the call
\* waits as long as the queue is empty.
GetReport(blocking, timeout_in_s) ==
    /\ QueueEmpty(queue_out) => ~(blocking /\ timeout_in_s = None)
    /\ queue_out' = IF QueueEmpty(queue_out) THEN queue_out ELSE QueueGet(queue_out).rest

Report == IF QueueEmpty(queue_out) THEN <<>> ELSE <<QueueGet(queue_out).item>>

WaitAndGetReport(c, blocking, timeout_in_s) ==
    /\ caller[c].pc = "idle"
    /\ budget.report > 0
    /\ GetReport(blocking, timeout_in_s)
    /\ returned' = Append(returned, [op |-> "wait_and_get_report", ev |-> Report,
                                     val |-> None])
    /\ budget' = Spend("report")
    /\ UNCHANGED <<submitted, dequeued, sends>>
    /\ UNCHANGED <<daqVars, ctorVars, connVars, kind, lock, flagVars, queue_in, used_queue,
                   is_instance, threadVars, channel, caller, histVars>>

\* dict.get: the value of the key, None when the dict has no such key
DictGet(d, key) == IF key \in DOMAIN d THEN d[key] ELSE None

\* what receive_message makes of the response of wait_and_get_report
Unwrap(response) ==
    IF response = <<>> THEN None
    ELSE LET msg == DictGet(response[1], "msg")
             remote_id == DictGet(response[1], "remote_id")
         IN IF remote_id # None THEN <<msg, remote_id>> ELSE msg

ReceiveMessage(c, blocking, timeout_in_s) ==
    /\ caller[c].pc = "idle"
    /\ budget.report > 0
    /\ kind = "ComAux"
    /\ GetReport(blocking, timeout_in_s)
    /\ returned' = Append(returned, [op |-> "receive_message", ev |-> Report,
                                     val |-> Unwrap(Report)])
    /\ budget' = Spend("report")
    /\ UNCHANGED <<submitted, dequeued, sends>>
    /\ UNCHANGED <<daqVars, ctorVars, connVars, kind, lock, flagVars, queue_in, used_queue,
                   is_instance, threadVars, channel, caller, histVars>>

(***************************************************************************)
(* DoubleThreadAuxiliary.stop                                              *)
(***************************************************************************)
StopEnter(c) ==
    /\ caller[c].pc = "idle"
    /\ budget.stop > 0
    /\ caller' = Goto(c, "st_cmd")
    /\ budget' = Spend("stop")
    /\ UNCHANGED logVars
    /\ UNCHANGED <<daqVars, ctorVars, connVars, kind, lock, flagVars, queueVars, is_instance,
                   threadVars, channel, histVars>>

\* stopped = self.run_command(cmd_message="stop")
StopCmd(c) ==
    /\ caller[c].pc = "st_cmd"
    /\ kind = "ComAux"
    /\ Submit(c, "stop", None, TRUE, "st_wait")
    /\ UNCHANGED <<returned, dequeued, sends>>
    /\ UNCHANGED <<daqVars, ctorVars, connVars, kind, flagVars, used_queue, queue_out,
                   is_instance, threadVars, channel, budget, raised, observed>>

StopWait(c) ==
    /\ caller[c].pc = "st_wait"
    /\ GetReply(c)
    /\ lock' = Release
    /\ caller' = Goto(c, "st_flags")
    /\ UNCHANGED logVars
    /\ UNCHANGED <<daqVars, ctorVars, connVars, kind, flagVars, queue_in, queue_out, is_instance,
                   threadVars, channel, budget, raised, next_id>>

\* faulty variant of StopFlags: stop_rx is never set
StopFlagsTxOnly(c) ==
    /\ caller[c].pc = "st_flags"
    /\ stop_tx' = TRUE
    /\ caller' = Goto(c, "st_join_rx")
    /\ UNCHANGED logVars
    /\ UNCHANGED <<daqVars, ctorVars, connVars, kind, lock, stop_rx, queueVars, is_instance,
                   threadVars, channel, budget, histVars>>

\* faulty variant of StopFlags: the stop flags of the subscribers are set too
StopFlagsAll(c) ==
    /\ caller[c].pc = "st_flags"
    /\ stop_rx' = TRUE
    /\ stop_tx' = TRUE
    /\ sub_aux' = [s \in DOMAIN sub_aux |->
                      [sub_aux[s] EXCEPT !.stop_tx = TRUE, !.stop_rx = TRUE]]
    /\ caller' = Goto(c, "st_join_rx")
    /\ UNCHANGED logVars
    /\ UNCHANGED <<daqVars, ctorVars, conn_in, conn_out, relayed, received, phys_rcv, pass_start,
                   sub_sent, kind, lock, queueVars, is_instance, threadVars, channel, budget,
                   histVars>>

\* self.stop_rx.set(); self.stop_tx.set()
StopFlags(c) ==
    /\ caller[c].pc = "st_flags"
    /\ stop_rx' = TRUE
    /\ stop_tx' = TRUE
    /\ caller' = Goto(c, "st_join_rx")
    /\ UNCHANGED logVars
    /\ UNCHANGED <<daqVars, ctorVars, connVars, kind, lock, queueVars, is_instance, threadVars,
                   channel, budget, histVars>>

\* self.rx_thread.join(): the attribute exists only once a create_instance has
\* created the threads; the AttributeError leaves stop() and, when stop() was
\* called by the failing hook, create_instance and its `with self.lock:`
StopJoinRx(c) ==
    /\ caller[c].pc = "st_join_rx"
    /\ IF rx_thread = 0
       THEN /\ caller' = Return(c)
            /\ lock' = IF caller[c].nested THEN ReleaseAll ELSE lock
            /\ raised' = Raise(IF caller[c].nested THEN "create_instance" ELSE "stop",
                               "AttributeError")
       ELSE /\ rx_threads[rx_thread] = "done"
            /\ caller' = Goto(c, "st_join_tx")
            /\ UNCHANGED <<lock, raised>>
    /\ UNCHANGED logVars
    /\ UNCHANGED <<daqVars, ctorVars, connVars, kind, flagVars, queueVars, is_instance,
                   threadVars, channel, budget, next_id, observed>>

\* self.tx_thread.join(); stop() returns, into the failing hook when called there
StopJoinTx(c) ==
    /\ caller[c].pc = "st_join_tx"
    /\ tx_threads[tx_thread].pc = "done"
    /\ caller' = IF caller[c].nested THEN Goto(c, "ci_raise") ELSE Return(c)
    /\ UNCHANGED logVars
    /\ UNCHANGED <<daqVars, ctorVars, connVars, kind, lock, flagVars, queueVars, is_instance,
                   threadVars, channel, budget, histVars>>

(***************************************************************************)
(* DoubleThreadAuxiliary._transmit_task: the command worker                *)
(***************************************************************************)
SetTx(t, pc, cmd) == [tx_threads EXCEPT ![t] = [pc |-> pc, cmd |-> cmd, i |-> 0]]

\* `while not self.stop_tx.is_set():`
TxLoop(t) ==
    /\ tx_threads[t].pc = "loop"
    /\ kind = "ComAux"
    /\ tx_threads' = SetTx(t, IF stop_tx THEN "done" ELSE "get", NoCmd)
    /\ UNCHANGED logVars
    /\ UNCHANGED <<daqVars, ctorVars, connVars, kind, lock, flagVars, queueVars, is_instance,
                   rx_threads, channel, caller, budget, histVars>>

\* faulty variant of TxGet: no `break` after the acknowledgment
TxGetNoBreak(t) ==
    /\ tx_threads[t].pc = "get"
    /\ ~QueueEmpty(queue_in)
    /\ queue_in' = QueueGet(queue_in).rest
    /\ LET c == QueueGet(queue_in).item IN
       /\ dequeued' = Append(dequeued, [id |-> c.id, t |-> t])
       /\ IF c.cmd = "stop"
          THEN /\ used_queue' = QueuePut(used_queue, [val |-> "True", id |-> c.id])
               /\ tx_threads' = SetTx(t, "loop", NoCmd)
          ELSE /\ tx_threads' = SetTx(t, "run", c)
               /\ UNCHANGED used_queue
    /\ UNCHANGED <<returned, submitted, sends>>
    /\ UNCHANGED <<daqVars, ctorVars, connVars, kind, lock, flagVars, queue_out, is_instance,
                   rx_threads, channel, caller, budget, histVars>>

\* `cmd, data = self.queue_in.get()`, and the acknowledgment of the stop command
TxGet(t) ==
    /\ tx_threads[t].pc = "get"
    /\ ~QueueEmpty(queue_in)
    /\ queue_in' = QueueGet(queue_in).rest
    /\ LET c == QueueGet(queue_in).item IN
       /\ dequeued' = Append(dequeued, [id |-> c.id, t |-> t])
       /\ IF c.cmd = "stop"
          THEN /\ used_queue' = QueuePut(used_queue, [val |-> "True", id |-> c.id])
               /\ tx_threads' = SetTx(t, "done", NoCmd)
          ELSE /\ tx_threads' = SetTx(t, "run", c)
               /\ UNCHANGED used_queue
    /\ UNCHANGED <<returned, submitted, sends>>
    /\ UNCHANGED <<daqVars, ctorVars, connVars, kind, lock, flagVars, queue_out, is_instance,
                   rx_threads, channel, caller, budget, histVars>>

\* faulty variant of TxRun: _run_command returns True for every command
TxRunAlwaysTrue(t) ==
    /\ tx_threads[t].pc = "run"
    /\ LET c == tx_threads[t].cmd IN
       \E raises \in BOOLEAN :
          /\ raises => c.cmd = "send"
          /\ channel' = IF c.cmd = "send" /\ ~raises THEN ChannelSend(Frame(c.data, 1))
                        ELSE channel
          /\ sends' = IF c.cmd = "send"
                       THEN Append(sends, [id |-> c.id, data |-> c.data, ok |-> ~raises])
                       ELSE sends
          /\ used_queue' = QueuePut(used_queue, [val |-> "True", id |-> c.id])
    /\ tx_threads' = SetTx(t, "loop", NoCmd)
    /\ UNCHANGED <<returned, submitted, dequeued>>
    /\ UNCHANGED <<daqVars, ctorVars, connVars, kind, lock, flagVars, queue_in, queue_out,
                   is_instance, rx_threads, caller, budget, histVars>>

\* faulty variant of TxRun: the exception of cc_send is not caught and ends the
\* command worker
TxRunUncaught(t) ==
    /\ tx_threads[t].pc = "run"
    /\ LET c == tx_threads[t].cmd IN
       \E raises \in BOOLEAN :
          /\ raises => c.cmd = "send"
          /\ channel' = IF c.cmd = "send" /\ ~raises THEN ChannelSend(Frame(c.data, 1))
                        ELSE channel
          /\ sends' = IF c.cmd = "send"
                       THEN Append(sends, [id |-> c.id, data |-> c.data, ok |-> ~raises])
                       ELSE sends
          /\ used_queue' = IF raises THEN used_queue
                            ELSE QueuePut(used_queue,
                                    [val |-> IF c.cmd = "send" THEN "True" ELSE "False",
                                     id |-> c.id])
          /\ tx_threads' = SetTx(t, IF raises THEN "done" ELSE "loop", NoCmd)
    /\ UNCHANGED <<returned, submitted, dequeued>>
    /\ UNCHANGED <<daqVars, ctorVars, connVars, kind, lock, flagVars, queue_in, queue_out,
                   is_instance, rx_threads, caller, budget, histVars>>

\* `response = self._run_command(cmd, data)` with ComAux._run_command, and the put
\* of the response
TxRun(t) ==
    /\ tx_threads[t].pc = "run"
    /\ LET c == tx_threads[t].cmd IN
       \E raises \in BOOLEAN :
          /\ raises => c.cmd = "send"
          /\ channel' = IF c.cmd = "send" /\ ~raises THEN ChannelSend(Frame(c.data, 1))
                        ELSE channel
          /\ sends' = IF c.cmd = "send"
                       THEN Append(sends, [id |-> c.id, data |-> c.data, ok |-> ~raises])
                       ELSE sends
          /\ used_queue' = QueuePut(used_queue,
                 [val |-> IF c.cmd = "send" /\ ~raises THEN "True" ELSE "False",
                  id |-> c.id])
    /\ tx_threads' = SetTx(t, "loop", NoCmd)
    /\ UNCHANGED <<returned, submitted, dequeued>>
    /\ UNCHANGED <<daqVars, ctorVars, connVars, kind, lock, flagVars, queue_in, queue_out,
                   is_instance, rx_threads, caller, budget, histVars>>

(***************************************************************************)
(* DoubleThreadAuxiliary._reception_task: the reception worker             *)
(***************************************************************************)
RxLoop(r) ==
    /\ rx_threads[r] = "loop"
    /\ rx_threads' = [rx_threads EXCEPT ![r] = IF stop_rx THEN "done" ELSE "recv"]
    /\ UNCHANGED logVars
    /\ UNCHANGED <<daqVars, ctorVars, connVars, kind, lock, flagVars, queueVars, is_instance,
                   tx_threads, channel, caller, budget, histVars>>

\* cc_receive raises: with a frame waiting on the transport this is one of the
\* budget.rcv_fail failures of the transport, and the frame stays where it is
ReceiveFailure(raises) ==
    IF raises /\ channel.rx # <<>> THEN Spend("rcv_fail") ELSE budget

\* faulty variant of RxRecv: _receive_message takes the frame and returns None
RxRecvDrop(r) ==
    /\ rx_threads[r] = "recv"
    /\ kind = "ComAux"
    /\ channel' = [channel EXCEPT !.rx = IF @ = <<>> THEN @ ELSE Tail(@)]
    /\ rx_threads' = [rx_threads EXCEPT ![r] = "loop"]
    /\ UNCHANGED logVars
    /\ UNCHANGED <<daqVars, ctorVars, connVars, kind, lock, flagVars, queueVars, is_instance,
                   tx_threads, caller, budget, histVars>>

\* faulty variant of RxRecv: the reception worker puts what it received on the
\* reply sink (one shared output queue)
RxRecvShared(r) ==
    /\ rx_threads[r] = "recv"
    /\ kind = "ComAux"
    /\ \E raises \in BOOLEAN :
          /\ raises /\ channel.rx # <<>> => budget.rcv_fail > 0
          /\ budget' = ReceiveFailure(raises)
          /\ IF raises \/ channel.rx = <<>>
             THEN UNCHANGED <<channel, used_queue, phys_rcv>>
             ELSE /\ channel' = [channel EXCEPT !.rx = Tail(@)]
                  /\ IF Head(channel.rx).msg # None
                     THEN /\ used_queue' = QueuePut(used_queue,
                                                   [val |-> Head(channel.rx).msg, id |-> 0])
                          /\ phys_rcv' = Append(phys_rcv, Head(channel.rx))
                     ELSE UNCHANGED <<used_queue, phys_rcv>>
    /\ rx_threads' = [rx_threads EXCEPT ![r] = "loop"]
    /\ UNCHANGED logVars
    /\ UNCHANGED <<daqVars, ctorVars, conn_in, conn_out, relayed, received, pass_start, sub_sent,
                   sub_aux, kind, lock, flagVars, queue_in, queue_out, is_instance, tx_threads,
                   caller, histVars>>

\* faulty variant of RxRecv: stop_rx is tested between the receive and the put
RxRecvStopFirst(r) ==
    /\ rx_threads[r] = "recv"
    /\ kind = "ComAux"
    /\ \E raises \in BOOLEAN :
          /\ raises /\ channel.rx # <<>> => budget.rcv_fail > 0
          /\ budget' = ReceiveFailure(raises)
          /\ IF raises \/ channel.rx = <<>>
             THEN UNCHANGED <<channel, queue_out, phys_rcv>>
             ELSE /\ channel' = [channel EXCEPT !.rx = Tail(@)]
                  /\ IF Head(channel.rx).msg # None
                     THEN /\ queue_out' = IF stop_rx THEN queue_out
                                           ELSE QueuePut(queue_out, Head(channel.rx))
                          /\ phys_rcv' = Append(phys_rcv, Head(channel.rx))
                     ELSE UNCHANGED <<queue_out, phys_rcv>>
    /\ rx_threads' = [rx_threads EXCEPT ![r] = "loop"]
    /\ UNCHANGED logVars
    /\ UNCHANGED <<daqVars, ctorVars, conn_in, conn_out, relayed, received, pass_start, sub_sent,
                   sub_aux, kind, lock, flagVars, queue_in, used_queue, is_instance, tx_threads,
                   caller, histVars>>

\* ComAux._receive_message, and the put of what it returns
RxRecv(r) ==
    /\ rx_threads[r] = "recv"
    /\ kind = "ComAux"
    /\ \E raises \in BOOLEAN :
          /\ raises /\ channel.rx # <<>> => budget.rcv_fail > 0
          /\ budget' = ReceiveFailure(raises)
          /\ IF raises \/ channel.rx = <<>>
             THEN UNCHANGED <<channel, queue_out, phys_rcv>>
             ELSE /\ channel' = [channel EXCEPT !.rx = Tail(@)]
                  /\ IF Head(channel.rx).msg # None
                     THEN /\ queue_out' = QueuePut(queue_out, Head(channel.rx))
                          /\ phys_rcv' = Append(phys_rcv, Head(channel.rx))
                     ELSE UNCHANGED <<queue_out, phys_rcv>>
    /\ rx_threads' = [rx_threads EXCEPT ![r] = "loop"]
    /\ UNCHANGED logVars
    /\ UNCHANGED <<daqVars, ctorVars, conn_in, conn_out, relayed, received, pass_start, sub_sent,
                   sub_aux, kind, lock, flagVars, queue_in, used_queue, is_instance, tx_threads,
                   caller, histVars>>

(***************************************************************************)
(* The outside world: a payload reaches the transport.                     *)
(***************************************************************************)
Arrive(p) ==
    /\ budget.arrive > 0
    /\ channel' = [channel EXCEPT !.rx = Append(@, Frame(p, 0))]
    /\ budget' = Spend("arrive")
    /\ UNCHANGED logVars
    /\ UNCHANGED <<daqVars, ctorVars, connVars, kind, lock, flagVars, queueVars, is_instance,
                   threadVars, caller, histVars>>

(***************************************************************************)
(* The state DoubleThreadAuxiliary.__init__ leaves.                        *)
(***************************************************************************)
InitAux ==
    /\ lock = [owner |-> 0, count |-> 0]
    /\ stop_tx = FALSE
    /\ stop_rx = FALSE
    /\ queue_in = <<>>
    /\ used_queue = <<>>
    /\ queue_out = <<>>
    /\ is_instance = FALSE
    /\ tx_threads = <<>>
    /\ rx_threads = <<>>
    /\ raised = {}
    /\ next_id = 0
    /\ observed = <<>>
    /\ returned = <<>>
    /\ submitted = <<>>
    /\ dequeued = <<>>
    /\ sends = <<>>

\* no XCP measurement object exists
InitNoXcp ==
    /\ daq_list = <<>>
    /\ daq = <<>>

InitBase == InitAux /\ InitNoXcp

\* a transport not yet opened; loop: it is a loopback
NewChannel(loop) == [open |-> FALSE, rx |-> <<>>, tx |-> <<>>, loop |-> loop]

NoBudget == [create |-> 0, delete |-> 0, cmd |-> 0, stop |-> 0, report |-> 0,
             arrive |-> 0, sub_send |-> 0, rcv_fail |-> 0, trace_fail |-> 0,
             sub_life |-> 0, register |-> 0, start |-> 0, halt |-> 0, reset |-> 0]

\* no proxy: nothing is bound
InitNoProxy ==
    /\ aux_list = <<>>
    /\ ctor = "ok"
    /\ proxy_channels = <<>>
    /\ conn_in = <<>>
    /\ conn_out = <<>>
    /\ relayed = <<>>
    /\ received = <<>>
    /\ phys_rcv = <<>>
    /\ pass_start = <<>>
    /\ sub_sent = <<>>
    /\ sub_aux = <<>>

(***************************************************************************)
(* SpecCom: a ComAux serving commands. Two threads of test code create the *)
(* instance, submit commands and stop it, while a payload arrives.         *)
(***************************************************************************)
CmdInputs == {<<"send", p>> : p \in Payloads} \cup {<<"unknown", None>>}

InitCom ==
    /\ kind = "ComAux"
    /\ InitBase
    /\ InitNoProxy
    /\ channel = NewChannel(FALSE)
    /\ caller = [c \in {1, 2} |-> IdleCaller]
    /\ budget = [NoBudget EXCEPT !.create = 1, !.stop = 1, !.cmd = MaxCmds,
                                 !.arrive = MaxArrivals]

NextCom ==
    \/ \E c \in Callers : CreateEnter(c)
    \/ \E c \in Callers : CreateOpenOk(c)
    \/ \E c \in Callers : CreateOpenFail(c)
    \/ \E c \in Callers : CreateSpawn(c)
    \/ \E c \in Callers : CreateMark(c)
    \/ \E c \in Callers, in \in CmdInputs, blocking \in BOOLEAN :
          RunCommand(c, in[1], in[2], blocking)
    \/ \E c \in Callers : RunWait(c)
    \/ \E c \in Callers : StopEnter(c)
    \/ \E c \in Callers : StopCmd(c)
    \/ \E c \in Callers : StopWait(c)
    \/ \E c \in Callers : StopFlags(c)
    \/ \E c \in Callers : StopJoinRx(c)
    \/ \E c \in Callers : StopJoinTx(c)
    \/ \E t \in 1..Len(tx_threads) : TxLoop(t)
    \/ \E t \in 1..Len(tx_threads) : TxGet(t)
    \/ \E t \in 1..Len(tx_threads) : TxRun(t)
    \/ \E r \in 1..Len(rx_threads) : RxLoop(r)
    \/ \E r \in 1..Len(rx_threads) : RxRecv(r)
    \/ \E p \in Payloads : Arrive(p)

SpecCom == InitCom /\ [][NextCom]_vars

(***************************************************************************)
(* ProxyAuxiliary.__init__: get_proxy_con resolves the subscriber          *)
(* references. A reference is an AuxiliaryInterface instance, or a name:   *)
(* of an auxiliary already imported (sys.modules), of a configured one not *)
(* yet created (an alias of the configuration registry), or of nothing.    *)
(***************************************************************************)
MaxAux == 3         \* longest subscriber list given to the constructor

AuxRefs ==
    { [how |-> h, capable |-> b, chan |-> ch] :
          h \in {"instance", "module", "alias"}, b \in BOOLEAN, ch \in {1, 2} }
    \cup { [how |-> "unknown", capable |-> FALSE, chan |-> 0] }

\* faulty variant of CheckCompat: every auxiliary is accepted
CheckCompatNone(aux) == "none"

\* ProxyAuxiliary._check_compatibility: the exception it raises, "none" otherwise
CheckCompat(aux) == IF ~aux.capable THEN "NotImplementedError" ELSE "none"

\* the loop of get_proxy_con over aux_list: [error, channels], channels being
\* tuple(channel_inst) when no exception ended the loop. A name that sys.modules
\* does not know reaches `elif aux in ConfigRegistry.get_auxes_alias():`, and the
\* module binds no name ConfigRegistry (it imports CChannel, AuxiliaryInterface
\* and PACKAGE only): evaluating it raises NameError, for a configured alias as
\* for an unknown name, before the alias is loaded and before the
\* `log.error(f"Auxiliary : {aux} doesn't exist")` of the else branch.
RECURSIVE GetProxyCon(_, _)
GetProxyCon(list, channel_inst) ==
    IF list = <<>> THEN [error |-> "none", channels |-> channel_inst]
    ELSE LET aux == Head(list) IN
         IF aux.how = "instance"
         THEN IF CheckCompat(aux) # "none"
              THEN [error |-> CheckCompat(aux), channels |-> <<>>]
              ELSE GetProxyCon(Tail(list), Append(channel_inst, aux.chan))
         ELSE IF aux.how = "module"
         THEN IF CheckCompat(aux) # "none"
              THEN [error |-> CheckCompat(aux), channels |-> <<>>]
              ELSE GetProxyCon(Tail(list), Append(channel_inst, aux.chan))
         ELSE [error |-> "NameError", channels |-> <<>>]

Construct ==
    /\ ctor = "init"
    /\ LET r == GetProxyCon(aux_list, <<>>) IN
          /\ ctor' = IF r.error = "none" THEN "ok" ELSE r.error
          /\ proxy_channels' = r.channels
    /\ UNCHANGED logVars
    /\ UNCHANGED <<daqVars, connVars, kind, lock, flagVars, queueVars, is_instance, threadVars,
                   channel, caller, budget, histVars, aux_list>>

(***************************************************************************)
(* ProxyAuxiliary.run_command: `return True`                               *)
(***************************************************************************)
\* faulty variant of ProxyRunCommand: the command is put on queue_in, as the
\* run_command of the base class does
ProxyRunCommandQueued(c, cmd, data, blocking) ==
    /\ caller[c].pc = "idle"
    /\ budget.cmd > 0
    /\ kind = "ProxyAuxiliary"
    /\ queue_in' = QueuePut(queue_in, [cmd |-> cmd, data |-> data, id |-> next_id + 1])
    /\ observed' = Append(observed, [call |-> 0, reply |-> 0, val |-> "True"])
    /\ budget' = Spend("cmd")
    /\ UNCHANGED logVars
    /\ UNCHANGED <<daqVars, ctorVars, connVars, kind, lock, flagVars, used_queue, queue_out,
                   is_instance, threadVars, channel, caller, raised, next_id>>

ProxyRunCommand(c, cmd, data, blocking) ==
    /\ caller[c].pc = "idle"
    /\ budget.cmd > 0
    /\ kind = "ProxyAuxiliary"
    /\ observed' = Append(observed, [call |-> 0, reply |-> 0, val |-> "True"])
    /\ budget' = Spend("cmd")
    /\ UNCHANGED logVars
    /\ UNCHANGED <<daqVars, ctorVars, connVars, kind, lock, flagVars, queueVars, is_instance,
                   threadVars, channel, caller, raised, next_id>>

\* stop() of a proxy: `stopped = self.run_command(cmd_message="stop")` is True
ProxyStopCmd(c) ==
    /\ caller[c].pc = "st_cmd"
    /\ kind = "ProxyAuxiliary"
    /\ caller' = Goto(c, "st_flags")
    /\ UNCHANGED logVars
    /\ UNCHANGED <<daqVars, ctorVars, connVars, kind, lock, flagVars, queueVars, is_instance,
                   threadVars, channel, budget, histVars>>

(***************************************************************************)
(* ProxyAuxiliary._transmit_task, _run_command and _dispatch_command       *)
(***************************************************************************)
\* a relay pass begins: where the head entry of each connector will stand in
\* `relayed` once taken
PassStart ==
    [s \in DOMAIN conn_in |-> IF QueueEmpty(conn_in[s]) THEN 0 ELSE Len(relayed[s]) + 1]

\* faulty variant of ProxyTxLoop: the loop never reads stop_tx
ProxyTxLoopForever(t) ==
    /\ tx_threads[t].pc = "loop"
    /\ kind = "ProxyAuxiliary"
    /\ proxy_channels # <<>>
    /\ tx_threads' = [tx_threads EXCEPT ![t] = [pc |-> "relay", cmd |-> NoCmd, i |-> 1]]
    /\ pass_start' = PassStart
    /\ UNCHANGED logVars
    /\ UNCHANGED <<daqVars, ctorVars, conn_in, conn_out, relayed, received, phys_rcv, sub_sent,
                   sub_aux, kind, lock, flagVars, queueVars, is_instance, rx_threads, channel,
                   caller, budget, histVars>>

\* `while not self.stop_tx.is_set(): time.sleep(0.001); self._run_command()`
ProxyTxLoop(t) ==
    /\ tx_threads[t].pc = "loop"
    /\ kind = "ProxyAuxiliary"
    /\ tx_threads' = [tx_threads EXCEPT ![t] =
          IF stop_tx THEN [pc |-> "done", cmd |-> NoCmd, i |-> 0]
          ELSE IF proxy_channels = <<>> THEN @
          ELSE [pc |-> "relay", cmd |-> NoCmd, i |-> 1]]
    /\ pass_start' = IF stop_tx THEN pass_start ELSE PassStart
    /\ UNCHANGED logVars
    /\ UNCHANGED <<daqVars, ctorVars, conn_in, conn_out, relayed, received, phys_rcv, sub_sent,
                   sub_aux, kind, lock, flagVars, queueVars, is_instance, rx_threads, channel,
                   caller, budget, histVars>>

\* what _dispatch_command and _receive_message put on a queue_out: the named
\* arguments resp. the response, and (history) the way it took
Entry(kwargs, via) == [msg |-> kwargs.msg, src |-> kwargs.src, via |-> via]

\* faulty variant of Dispatch: the sender's connector is served too
RECURSIVE DispatchAll(_, _, _, _)
DispatchAll(out, k, con_use, kwargs) ==
    IF k > Len(proxy_channels) THEN out
    ELSE DispatchAll([out EXCEPT ![proxy_channels[k]] = QueuePut(@, Entry(kwargs, "dispatch"))],
                     k + 1, con_use, kwargs)

\* faulty variant of Dispatch: every other connector gets the entry twice
RECURSIVE DispatchTwice(_, _, _, _)
DispatchTwice(out, k, con_use, kwargs) ==
    IF k > Len(proxy_channels) THEN out
    ELSE LET conn == proxy_channels[k] IN
         DispatchTwice(IF conn # con_use
                       THEN [out EXCEPT ![conn] =
                               QueuePut(QueuePut(@, Entry(kwargs, "dispatch")),
                                        Entry(kwargs, "dispatch"))]
                       ELSE out,
                       k + 1, con_use, kwargs)

\* faulty variant of Dispatch: the entry is put in front of those that wait
RECURSIVE DispatchFront(_, _, _, _)
DispatchFront(out, k, con_use, kwargs) ==
    IF k > Len(proxy_channels) THEN out
    ELSE LET conn == proxy_channels[k] IN
         DispatchFront(IF conn # con_use
                       THEN [out EXCEPT ![conn] = QueuePutFront(@, Entry(kwargs, "dispatch"))]
                       ELSE out,
                       k + 1, con_use, kwargs)

\* _dispatch_command: `for conn in self.proxy_channels: if conn != con_use:
\* conn.queue_out.put(kwargs)`, from position k on
RECURSIVE Dispatch(_, _, _, _)
Dispatch(out, k, con_use, kwargs) ==
    IF k > Len(proxy_channels) THEN out
    ELSE LET conn == proxy_channels[k] IN
         Dispatch(IF conn # con_use
                  THEN [out EXCEPT ![conn] = QueuePut(@, Entry(kwargs, "dispatch"))]
                  ELSE out,
                  k + 1, con_use, kwargs)

\* the body of `for conn in self.proxy_channels:` in _run_command, for the
\* connector at position i; cc_send may raise, which ends the thread
ProxyTxRelay(t) ==
    /\ tx_threads[t].pc = "relay"
    /\ kind = "ProxyAuxiliary"
    /\ LET i == tx_threads[t].i
           conn == proxy_channels[i]
           next == IF i = Len(proxy_channels)
                   THEN [pc |-> "loop", cmd |-> NoCmd, i |-> 0]
                   ELSE [pc |-> "relay", cmd |-> NoCmd, i |-> i + 1]
       IN IF QueueEmpty(conn_in[conn])
          THEN /\ tx_threads' = [tx_threads EXCEPT ![t] = next]
               /\ UNCHANGED <<conn_in, conn_out, relayed, channel, raised>>
          ELSE LET kwargs == Head(conn_in[conn]).kwargs IN
               /\ conn_in' = [conn_in EXCEPT ![conn] = Tail(@)]
               /\ relayed' = [relayed EXCEPT ![conn] = Append(@, kwargs)]
               /\ conn_out' = IF kwargs.msg # None
                              THEN Dispatch(conn_out, 1, conn, kwargs)
                              ELSE conn_out
               /\ \E raises \in BOOLEAN :
                     IF raises
                     THEN /\ tx_threads' = [tx_threads EXCEPT ![t] =
                                              [pc |-> "done", cmd |-> NoCmd, i |-> 0]]
                          /\ raised' = Raise("_transmit_task", "Exception")
                          /\ UNCHANGED channel
                     ELSE /\ tx_threads' = [tx_threads EXCEPT ![t] = next]
                          /\ channel' = ChannelSend(Frame(kwargs.msg, kwargs.src))
                          /\ UNCHANGED raised
    /\ UNCHANGED logVars
    /\ UNCHANGED <<daqVars, ctorVars, received, phys_rcv, pass_start, sub_sent, sub_aux, kind,
                   lock, flagVars, queueVars, is_instance, rx_threads, caller, budget, next_id,
                   observed>>

(***************************************************************************)
(* ProxyAuxiliary._receive_message, called by _reception_task; it returns  *)
(* None, so that nothing is put on the proxy's own queue_out.              *)
(***************************************************************************)
\* faulty variant of Broadcast: a connector that holds unread entries is skipped
RECURSIVE BroadcastIdle(_, _, _)
BroadcastIdle(out, k, recv_response) ==
    IF k > Len(proxy_channels) THEN out
    ELSE BroadcastIdle(IF QueueEmpty(out[proxy_channels[k]])
                       THEN [out EXCEPT ![proxy_channels[k]] =
                                QueuePut(@, Entry(recv_response, "receive"))]
                       ELSE out,
                       k + 1, recv_response)

\* faulty variant of Broadcast: the connector of the frame's sender is skipped
RECURSIVE BroadcastOthers(_, _, _)
BroadcastOthers(out, k, recv_response) ==
    IF k > Len(proxy_channels) THEN out
    ELSE BroadcastOthers(IF proxy_channels[k] # recv_response.src
                         THEN [out EXCEPT ![proxy_channels[k]] =
                                  QueuePut(@, Entry(recv_response, "receive"))]
                         ELSE out,
                         k + 1, recv_response)

\* `for conn in self.proxy_channels: conn.queue_out.put(recv_response)`
RECURSIVE Broadcast(_, _, _)
Broadcast(out, k, recv_response) ==
    IF k > Len(proxy_channels) THEN out
    ELSE Broadcast([out EXCEPT ![proxy_channels[k]] = QueuePut(@, Entry(recv_response, "receive"))],
                   k + 1, recv_response)

\* `self.logger.debug(f"received response : data {received_data.hex()} || ...")`
\* raises (at most budget.trace_fail times): only a received payload is traced
TraceFailure(raises, trace_raises) ==
    IF trace_raises THEN Spend("trace_fail") ELSE ReceiveFailure(raises)

\* faulty variant of ProxyRxRecv: the hook returns what it received, and the
\* reception worker puts it on the proxy's own queue_out
ProxyRxRecvReturns(r) ==
    /\ rx_threads[r] = "recv"
    /\ kind = "ProxyAuxiliary"
    /\ \E raises, trace_raises \in BOOLEAN :
          /\ raises /\ channel.rx # <<>> => budget.rcv_fail > 0
          /\ trace_raises => /\ budget.trace_fail > 0
                              /\ ~raises /\ channel.rx # <<>>
                              /\ Head(channel.rx).msg # None
          /\ budget' = TraceFailure(raises, trace_raises)
          /\ IF raises \/ channel.rx = <<>>
             THEN UNCHANGED <<channel, conn_out, phys_rcv, queue_out>>
             ELSE /\ channel' = [channel EXCEPT !.rx = Tail(@)]
                  /\ IF Head(channel.rx).msg # None
                     THEN /\ conn_out' = IF trace_raises THEN conn_out
                                          ELSE Broadcast(conn_out, 1, Head(channel.rx))
                          /\ phys_rcv' = Append(phys_rcv, Head(channel.rx))
                          /\ queue_out' = QueuePut(queue_out, Head(channel.rx))
                     ELSE UNCHANGED <<conn_out, phys_rcv, queue_out>>
    /\ rx_threads' = [rx_threads EXCEPT ![r] = "loop"]
    /\ UNCHANGED logVars
    /\ UNCHANGED <<daqVars, ctorVars, conn_in, relayed, received, pass_start, sub_sent, sub_aux,
                   kind, lock, flagVars, queue_in, used_queue, is_instance, tx_threads, caller,
                   histVars>>

\* try: cc_receive, the trace record, the broadcast; except Exception: log
ProxyRxRecv(r) ==
    /\ rx_threads[r] = "recv"
    /\ kind = "ProxyAuxiliary"
    /\ \E raises, trace_raises \in BOOLEAN :
          /\ raises /\ channel.rx # <<>> => budget.rcv_fail > 0
          /\ trace_raises => /\ budget.trace_fail > 0
                              /\ ~raises /\ channel.rx # <<>>
                              /\ Head(channel.rx).msg # None
          /\ budget' = TraceFailure(raises, trace_raises)
          /\ IF raises \/ channel.rx = <<>>
             THEN UNCHANGED <<channel, conn_out, phys_rcv>>
             ELSE /\ channel' = [channel EXCEPT !.rx = Tail(@)]
                  /\ IF Head(channel.rx).msg # None
                     THEN /\ conn_out' = IF trace_raises THEN conn_out
                                          ELSE Broadcast(conn_out, 1, Head(channel.rx))
                          /\ phys_rcv' = Append(phys_rcv, Head(channel.rx))
                     ELSE UNCHANGED <<conn_out, phys_rcv>>
    /\ rx_threads' = [rx_threads EXCEPT ![r] = "loop"]
    /\ UNCHANGED logVars
    /\ UNCHANGED <<daqVars, ctorVars, conn_in, relayed, received, pass_start, sub_sent, sub_aux,
                   kind, lock, flagVars, queueVars, is_instance, tx_threads, caller, histVars>>

(***************************************************************************)
(* The subscribers (simple channel auxiliaries over their bound channel):  *)
(* a send puts the call's arguments on the connector's queue_in, a receive *)
(* takes the oldest entry of its queue_out.                                *)
(***************************************************************************)
SubSend(s, p) ==
    /\ budget.sub_send > 0
    /\ conn_in' = [conn_in EXCEPT ![s] =
          QueuePut(@, [args |-> <<>>, kwargs |-> [msg |-> p, raw |-> TRUE, src |-> s]])]
    /\ sub_sent' = [sub_sent EXCEPT ![s] = Append(@, p)]
    /\ budget' = Spend("sub_send")
    /\ UNCHANGED logVars
    /\ UNCHANGED <<daqVars, ctorVars, conn_out, relayed, received, phys_rcv, pass_start, sub_aux,
                   kind, lock, flagVars, queueVars, is_instance, threadVars, channel, caller,
                   histVars>>

SubReceive(s) ==
    /\ ~QueueEmpty(conn_out[s])
    /\ received' = [received EXCEPT ![s] = Append(@, Head(conn_out[s]))]
    /\ conn_out' = [conn_out EXCEPT ![s] = Tail(@)]
    /\ UNCHANGED logVars
    /\ UNCHANGED <<daqVars, ctorVars, conn_in, relayed, phys_rcv, pass_start, sub_sent, sub_aux,
                   kind, lock, flagVars, queueVars, is_instance, threadVars, channel, caller,
                   budget, histVars>>

\* the life cycle of a subscriber, an auxiliary of its own: its create_instance
\* starts its workers and sets its is_instance ...
SubCreateInstance(s) ==
    /\ budget.sub_life > 0
    /\ ~sub_aux[s].is_instance
    /\ sub_aux' = [sub_aux EXCEPT ![s].is_instance = TRUE, ![s].workers = "alive"]
    /\ budget' = Spend("sub_life")
    /\ UNCHANGED logVars
    /\ UNCHANGED <<daqVars, ctorVars, conn_in, conn_out, relayed, received, phys_rcv, pass_start,
                   sub_sent, kind, lock, flagVars, queueVars, is_instance, threadVars, channel,
                   caller, histVars>>

\* ... and its stop() sets its stop flags and joins its workers
SubStop(s) ==
    /\ budget.sub_life > 0
    /\ sub_aux[s].workers = "alive"
    /\ sub_aux' = [sub_aux EXCEPT ![s].stop_tx = TRUE, ![s].stop_rx = TRUE,
                                  ![s].workers = "ended"]
    /\ budget' = Spend("sub_life")
    /\ UNCHANGED logVars
    /\ UNCHANGED <<daqVars, ctorVars, conn_in, conn_out, relayed, received, phys_rcv, pass_start,
                   sub_sent, kind, lock, flagVars, queueVars, is_instance, threadVars, channel,
                   caller, histVars>>

(***************************************************************************)
(* SpecProxy: a proxy constructed over three subscribers, relaying their   *)
(* messages and what arrives on its transport.                             *)
(***************************************************************************)
MaxMsgs == 2        \* messages the subscribers send

\* what a subscriber sends: a raw message, or nothing (msg=None)
SubPayloads == {"a", None}

\* a subscriber auxiliary as its constructor leaves it
NewAux == [is_instance |-> FALSE, stop_tx |-> FALSE, stop_rx |-> FALSE, workers |-> "none"]

InitConn(chans) ==
    /\ conn_in = [s \in chans |-> <<>>]
    /\ conn_out = [s \in chans |-> <<>>]
    /\ relayed = [s \in chans |-> <<>>]
    /\ received = [s \in chans |-> <<>>]
    /\ pass_start = [s \in chans |-> 0]
    /\ sub_sent = [s \in chans |-> <<>>]
    /\ sub_aux = [s \in chans |-> NewAux]
    /\ phys_rcv = <<>>

InitProxyOn(n, loop) ==
    /\ kind = "ProxyAuxiliary"
    /\ aux_list = [k \in 1..n |-> [how |-> "module", capable |-> TRUE, chan |-> k]]
    /\ proxy_channels = [k \in 1..n |-> k]
    /\ InitConn(1..n)
    /\ ctor = "ok"
    /\ channel = NewChannel(loop)
    /\ caller = [c \in {1} |-> IdleCaller]

InitProxy ==
    /\ InitBase
    /\ InitProxyOn(3, FALSE)
    /\ budget = [NoBudget EXCEPT !.create = 1, !.sub_send = MaxMsgs,
                                 !.arrive = MaxArrivals]

NextProxy ==
    \/ \E c \in Callers : CreateEnter(c)
    \/ \E c \in Callers : CreateOpenOk(c)
    \/ \E c \in Callers : CreateOpenFail(c)
    \/ \E c \in Callers : CreateSpawn(c)
    \/ \E c \in Callers : CreateMark(c)
    \/ \E c \in Callers : ProxyStopCmd(c)
    \/ \E c \in Callers : StopFlags(c)
    \/ \E c \in Callers : StopJoinRx(c)
    \/ \E t \in 1..Len(tx_threads) : ProxyTxLoop(t)
    \/ \E t \in 1..Len(tx_threads) : ProxyTxRelay(t)
    \/ \E r \in 1..Len(rx_threads) : RxLoop(r)
    \/ \E r \in 1..Len(rx_threads) : ProxyRxRecv(r)
    \/ \E s \in DOMAIN conn_in, p \in SubPayloads : SubSend(s, p)
    \/ \E s \in DOMAIN conn_out : SubReceive(s)
    \/ \E p \in Payloads : Arrive(p)

SpecProxy == InitProxy /\ [][NextProxy]_vars

(***************************************************************************)
(* SpecLoop: a proxy over a loopback transport with two subscribers bound. *)
(***************************************************************************)
InitLoop ==
    /\ InitBase
    /\ InitProxyOn(2, TRUE)
    /\ budget = [NoBudget EXCEPT !.create = 1, !.stop = 1, !.cmd = 1, !.sub_send = MaxMsgs]

NextLoop ==
    \/ \E c \in Callers : CreateEnter(c)
    \/ \E c \in Callers : CreateOpenOk(c)
    \/ \E c \in Callers : CreateOpenFail(c)
    \/ \E c \in Callers : CreateSpawn(c)
    \/ \E c \in Callers : CreateMark(c)
    \/ \E c \in Callers, in \in CmdInputs, blocking \in BOOLEAN :
          ProxyRunCommand(c, in[1], in[2], blocking)
    \/ \E c \in Callers : StopEnter(c)
    \/ \E c \in Callers : ProxyStopCmd(c)
    \/ \E c \in Callers : StopFlags(c)
    \/ \E c \in Callers : StopJoinRx(c)
    \/ \E c \in Callers : StopJoinTx(c)
    \/ \E t \in 1..Len(tx_threads) : ProxyTxLoop(t)
    \/ \E t \in 1..Len(tx_threads) : ProxyTxRelay(t)
    \/ \E r \in 1..Len(rx_threads) : RxLoop(r)
    \/ \E r \in 1..Len(rx_threads) : ProxyRxRecv(r)
    \/ \E s \in DOMAIN conn_in, p \in SubPayloads : SubSend(s, p)
    \/ \E s \in DOMAIN conn_out : SubReceive(s)

SpecLoop == InitLoop /\ [][NextLoop]_vars

(***************************************************************************)
(* SpecOrder: a proxy over a loopback transport with two subscribers that  *)
(* send messages of different content.                                     *)
(***************************************************************************)
InitOrder ==
    /\ InitBase
    /\ InitProxyOn(2, TRUE)
    /\ budget = [NoBudget EXCEPT !.create = 1, !.sub_send = MaxMsgs]

NextOrder ==
    \/ \E c \in Callers : CreateEnter(c)
    \/ \E c \in Callers : CreateOpenOk(c)
    \/ \E c \in Callers : CreateOpenFail(c)
    \/ \E c \in Callers : CreateSpawn(c)
    \/ \E c \in Callers : CreateMark(c)
    \/ \E c \in Callers : ProxyStopCmd(c)
    \/ \E c \in Callers : StopFlags(c)
    \/ \E c \in Callers : StopJoinRx(c)
    \/ \E t \in 1..Len(tx_threads) : ProxyTxLoop(t)
    \/ \E t \in 1..Len(tx_threads) : ProxyTxRelay(t)
    \/ \E r \in 1..Len(rx_threads) : RxLoop(r)
    \/ \E r \in 1..Len(rx_threads) : ProxyRxRecv(r)
    \/ \E s \in DOMAIN conn_in, p \in Payloads : SubSend(s, p)
    \/ \E s \in DOMAIN conn_out : SubReceive(s)

SpecOrder == InitOrder /\ [][NextOrder]_vars

(***************************************************************************)
(* SpecSubs: the life cycle of a proxy (create_instance, delete_instance,  *)
(* stop) while its two subscribers live their own and exchange a message.  *)
(***************************************************************************)
MaxSubOps == 2      \* create_instance / stop calls on the subscribers

InitSubs ==
    /\ InitBase
    /\ InitProxyOn(2, TRUE)
    /\ budget = [NoBudget EXCEPT !.create = 1, !.delete = 1, !.stop = 1, !.sub_send = 1,
                                 !.sub_life = MaxSubOps]

NextSubs ==
    \/ \E c \in Callers : CreateEnter(c)
    \/ \E c \in Callers : CreateOpenOk(c)
    \/ \E c \in Callers : CreateOpenFail(c)
    \/ \E c \in Callers : CreateSpawn(c)
    \/ \E c \in Callers : CreateMark(c)
    \/ \E c \in Callers : DeleteInstance(c)
    \/ \E c \in Callers : StopEnter(c)
    \/ \E c \in Callers : ProxyStopCmd(c)
    \/ \E c \in Callers : StopFlags(c)
    \/ \E c \in Callers : StopJoinRx(c)
    \/ \E c \in Callers : StopJoinTx(c)
    \/ \E t \in 1..Len(tx_threads) : ProxyTxLoop(t)
    \/ \E t \in 1..Len(tx_threads) : ProxyTxRelay(t)
    \/ \E r \in 1..Len(rx_threads) : RxLoop(r)
    \/ \E r \in 1..Len(rx_threads) : ProxyRxRecv(r)
    \/ \E s \in DOMAIN conn_in, p \in Payloads : SubSend(s, p)
    \/ \E s \in DOMAIN conn_out : SubReceive(s)
    \/ \E s \in DOMAIN sub_aux : SubCreateInstance(s)
    \/ \E s \in DOMAIN sub_aux : SubStop(s)

SpecSubs == InitSubs /\ [][NextSubs]_vars

(***************************************************************************)
(* SpecTrace: the same proxy, with a trace record that cannot be written.  *)
(***************************************************************************)
MaxTraceFails == 1  \* trace records whose logging raises

InitTrace ==
    /\ InitBase
    /\ InitProxyOn(2, TRUE)
    /\ budget = [NoBudget EXCEPT !.create = 1, !.sub_send = MaxMsgs,
                                 !.trace_fail = MaxTraceFails]

SpecTrace == InitTrace /\ [][NextOrder]_vars

(***************************************************************************)
(* SpecCtor: the construction of a proxy from any list of at most MaxAux   *)
(* subscriber references, and the creation of its instance.                *)
(***************************************************************************)
RECURSIVE SeqsUpTo(_, _)
SeqsUpTo(S, n) ==
    IF n = 0 THEN {<<>>}
    ELSE LET shorter == SeqsUpTo(S, n - 1) IN
         shorter \cup {Append(q, x) : q \in shorter, x \in S}

InitCtor ==
    /\ kind = "ProxyAuxiliary"
    /\ InitBase
    /\ aux_list \in SeqsUpTo(AuxRefs, MaxAux)
    /\ ctor = "init"
    /\ proxy_channels = <<>>
    /\ InitConn({1, 2})
    /\ channel = NewChannel(FALSE)
    /\ caller = [c \in {1} |-> IdleCaller]
    /\ budget = [NoBudget EXCEPT !.create = 1]

NextCtor ==
    \/ Construct
    \/ /\ ctor = "ok"
       /\ \/ \E c \in Callers : CreateEnter(c)
          \/ \E c \in Callers : CreateOpenOk(c)
          \/ \E c \in Callers : CreateOpenFail(c)
          \/ \E c \in Callers : CreateSpawn(c)
          \/ \E c \in Callers : CreateMark(c)
          \/ \E c \in Callers : ProxyStopCmd(c)
          \/ \E c \in Callers : StopFlags(c)
          \/ \E c \in Callers : StopJoinRx(c)
          \/ \E t \in 1..Len(tx_threads) : ProxyTxLoop(t)
          \/ \E t \in 1..Len(tx_threads) : ProxyTxRelay(t)
          \/ \E r \in 1..Len(rx_threads) : RxLoop(r)
          \/ \E r \in 1..Len(rx_threads) : ProxyRxRecv(r)

SpecCtor == InitCtor /\ [][NextCtor]_vars

(***************************************************************************)
(* SpecLife: the life cycle of one auxiliary of either class: two          *)
(* create_instance calls (the transport may refuse to open), a command, a  *)
(* stop() and a delete_instance, in any order.                             *)
(***************************************************************************)
InitLife ==
    /\ InitBase
    /\ \/ /\ kind = "ComAux"
          /\ InitNoProxy
          /\ channel = NewChannel(FALSE)
          /\ caller = [c \in {1} |-> IdleCaller]
       \/ InitProxyOn(2, FALSE)
    /\ budget = [NoBudget EXCEPT !.create = 2, !.stop = 1, !.delete = 1, !.cmd = 1]

NextLife ==
    \/ \E c \in Callers : CreateEnter(c)
    \/ \E c \in Callers : CreateOpenOk(c)
    \/ \E c \in Callers : CreateOpenFail(c)
    \/ \E c \in Callers : CreateSpawn(c)
    \/ \E c \in Callers : CreateMark(c)
    \/ \E c \in Callers : CreateRaise(c)
    \/ \E c \in Callers : DeleteInstance(c)
    \/ \E c \in Callers, in \in CmdInputs, blocking \in BOOLEAN :
          RunCommand(c, in[1], in[2], blocking)
    \/ \E c \in Callers, in \in CmdInputs, blocking \in BOOLEAN :
          ProxyRunCommand(c, in[1], in[2], blocking)
    \/ \E c \in Callers : RunWait(c)
    \/ \E c \in Callers : StopEnter(c)
    \/ \E c \in Callers : StopCmd(c)
    \/ \E c \in Callers : ProxyStopCmd(c)
    \/ \E c \in Callers : StopWait(c)
    \/ \E c \in Callers : StopFlags(c)
    \/ \E c \in Callers : StopJoinRx(c)
    \/ \E c \in Callers : StopJoinTx(c)
    \/ \E t \in 1..Len(tx_threads) : TxLoop(t)
    \/ \E t \in 1..Len(tx_threads) : TxGet(t)
    \/ \E t \in 1..Len(tx_threads) : TxRun(t)
    \/ \E t \in 1..Len(tx_threads) : ProxyTxLoop(t)
    \/ \E t \in 1..Len(tx_threads) : ProxyTxRelay(t)
    \/ \E r \in 1..Len(rx_threads) : RxLoop(r)
    \/ \E r \in 1..Len(rx_threads) : RxRecv(r)
    \/ \E r \in 1..Len(rx_threads) : ProxyRxRecv(r)

SpecLife == InitLife /\ [][NextLife]_vars

(***************************************************************************)
(* SpecEcho: a ComAux over a loopback transport; test code sends and reads *)
(* what comes back.                                                        *)
(***************************************************************************)
MaxReports == 2     \* wait_and_get_report / receive_message calls by test code
MaxRcvFails == 1    \* cc_receive calls that raise while a frame waits

InitEcho ==
    /\ kind = "ComAux"
    /\ InitBase
    /\ InitNoProxy
    /\ channel = NewChannel(TRUE)
    /\ caller = [c \in {1} |-> IdleCaller]
    /\ budget = [NoBudget EXCEPT !.create = 1, !.cmd = MaxCmds, !.report = MaxReports,
                                 !.rcv_fail = MaxRcvFails]

NextEcho ==
    \/ \E c \in Callers : CreateEnter(c)
    \/ \E c \in Callers : CreateOpenOk(c)
    \/ \E c \in Callers : CreateOpenFail(c)
    \/ \E c \in Callers : CreateSpawn(c)
    \/ \E c \in Callers : CreateMark(c)
    \/ \E c \in Callers, in \in CmdInputs, blocking \in BOOLEAN :
          RunCommand(c, in[1], in[2], blocking)
    \/ \E c \in Callers : RunWait(c)
    \/ \E c \in Callers, blocking \in BOOLEAN, timeout_in_s \in Timeouts :
          WaitAndGetReport(c, blocking, timeout_in_s)
    \/ \E c \in Callers, blocking \in BOOLEAN, timeout_in_s \in Timeouts :
          ReceiveMessage(c, blocking, timeout_in_s)
    \/ \E c \in Callers : StopCmd(c)
    \/ \E c \in Callers : StopWait(c)
    \/ \E c \in Callers : StopFlags(c)
    \/ \E c \in Callers : StopJoinRx(c)
    \/ \E t \in 1..Len(tx_threads) : TxLoop(t)
    \/ \E t \in 1..Len(tx_threads) : TxGet(t)
    \/ \E t \in 1..Len(tx_threads) : TxRun(t)
    \/ \E r \in 1..Len(rx_threads) : RxLoop(r)
    \/ \E r \in 1..Len(rx_threads) : RxRecv(r)

SpecEcho == InitEcho /\ [][NextEcho]_vars

(***************************************************************************)
(* SpecReport: the proxy of SpecLoop, on which test code also calls        *)
(* wait_and_get_report.                                                    *)
(***************************************************************************)
InitReport ==
    /\ InitBase
    /\ InitProxyOn(2, TRUE)
    /\ budget = [NoBudget EXCEPT !.create = 1, !.stop = 1, !.cmd = 1, !.sub_send = 1,
                                 !.report = MaxReports]

NextReport ==
    \/ NextLoop
    \/ \E c \in Callers, blocking \in BOOLEAN, timeout_in_s \in Timeouts :
          WaitAndGetReport(c, blocking, timeout_in_s)

SpecReport == InitReport /\ [][NextReport]_vars

(***************************************************************************)
(* SpecLast: a ComAux over a loopback transport that test code stops while *)
(* what it sent is on its way back.                                        *)
(***************************************************************************)
InitLast ==
    /\ kind = "ComAux"
    /\ InitBase
    /\ InitNoProxy
    /\ channel = NewChannel(TRUE)
    /\ caller = [c \in {1} |-> IdleCaller]
    /\ budget = [NoBudget EXCEPT !.create = 1, !.cmd = MaxCmds, !.stop = 1]

NextLast ==
    \/ \E c \in Callers : CreateEnter(c)
    \/ \E c \in Callers : CreateOpenOk(c)
    \/ \E c \in Callers : CreateOpenFail(c)
    \/ \E c \in Callers : CreateSpawn(c)
    \/ \E c \in Callers : CreateMark(c)
    \/ \E c \in Callers, in \in CmdInputs, blocking \in BOOLEAN :
          RunCommand(c, in[1], in[2], blocking)
    \/ \E c \in Callers : RunWait(c)
    \/ \E c \in Callers : StopEnter(c)
    \/ \E c \in Callers : StopCmd(c)
    \/ \E c \in Callers : StopWait(c)
    \/ \E c \in Callers : StopFlags(c)
    \/ \E c \in Callers : StopJoinRx(c)
    \/ \E c \in Callers : StopJoinTx(c)
    \/ \E t \in 1..Len(tx_threads) : TxLoop(t)
    \/ \E t \in 1..Len(tx_threads) : TxGet(t)
    \/ \E t \in 1..Len(tx_threads) : TxRun(t)
    \/ \E r \in 1..Len(rx_threads) : RxLoop(r)
    \/ \E r \in 1..Len(rx_threads) : RxRecv(r)

SpecLast == InitLast /\ [][NextLast]_vars

(***************************************************************************)
(* xcp_daq: DaqList.create_odts packs the variables to record into ODTs,   *)
(* one XCP packet each. A variable (XcpVar) is [name, size].               *)
(***************************************************************************)
PID_LENGTH == 1         \* XcpCanSettings.PID_LENGTH
PACKET_PAYLOAD == 64    \* XcpCanSettings.PACKET_PAYLOAD

\* every variable but those of the auxiliaries' state
auxVars == <<ctorVars, connVars, kind, lock, flagVars, queueVars, is_instance, threadVars,
             channel, caller, histVars, logVars>>

\* Odt(number=odt_count)
Odt(number) == [number |-> number, variables |-> <<>>]

\* `current_odt.variables.append(var)`: current_odt is the last of self.odts
AppendToCurrent(odts, var) ==
    [odts EXCEPT ![Len(odts)].variables = Append(@, var)]

\* faulty variant of CreateOdtsLoop: a packet that is just full is closed
RECURSIVE CreateOdtsLoopEager(_, _, _, _, _)
CreateOdtsLoopEager(odts, odt_count, payload_size, variables, k) ==
    IF k > Len(variables) THEN odts
    ELSE LET var == variables[k] IN
         IF payload_size + var.size >= PACKET_PAYLOAD
         THEN CreateOdtsLoopEager(AppendToCurrent(Append(odts, Odt(odt_count + 1)), var),
                                  odt_count + 1, PID_LENGTH + var.size, variables, k + 1)
         ELSE CreateOdtsLoopEager(AppendToCurrent(odts, var), odt_count,
                                  payload_size + var.size, variables, k + 1)

\* `for var in variables:` of create_odts, from the k-th variable on
RECURSIVE CreateOdtsLoop(_, _, _, _, _)
CreateOdtsLoop(odts, odt_count, payload_size, variables, k) ==
    IF k > Len(variables) THEN odts
    ELSE LET var == variables[k] IN
         IF payload_size + var.size > PACKET_PAYLOAD
         THEN CreateOdtsLoop(AppendToCurrent(Append(odts, Odt(odt_count + 1)), var),
                             odt_count + 1, PID_LENGTH + var.size, variables, k + 1)
         ELSE CreateOdtsLoop(AppendToCurrent(odts, var), odt_count,
                             payload_size + var.size, variables, k + 1)

\* self.odts once create_odts(variables) has run on a DaqList that held odts
CreateOdts(odts, variables) ==
    CreateOdtsLoop(Append(odts, Odt(0)), 0, PID_LENGTH, variables, 1)

\* `[odt.variables for odt in self.odts]`
OdtVariables(odts) == [k \in 1..Len(odts) |-> odts[k].variables]

\* DaqList(number=..., event=...)
NewDaqList(number, event) == [number |-> number, event |-> event, odts |-> <<>>]

\* daq_list.create_odts(variables) on the DaqList under test
CreateOdtsCall ==
    /\ daq_list # <<>>
    /\ daq_list.pc = "new"
    /\ LET odts == CreateOdts(daq_list.obj.odts, daq_list.variables) IN
          daq_list' = [daq_list EXCEPT !.obj.odts = odts, !.ret = OdtVariables(odts),
                                       !.pc = "done"]
    /\ UNCHANGED <<auxVars, budget, daq>>

(***************************************************************************)
(* SpecOdts: create_odts on a fresh DaqList, for every list of at most     *)
(* MaxVars variables whose sizes are among VarSizes.                       *)
(***************************************************************************)
MaxVars == 4        \* longest list of variables given to create_odts
VarSizes == {1, 31, 32, PACKET_PAYLOAD - PID_LENGTH}

\* the state of the auxiliaries' variables when no auxiliary exists
InitNoAux ==
    /\ kind = "none"
    /\ InitAux
    /\ InitNoProxy
    /\ channel = NewChannel(FALSE)
    /\ caller = <<>>

InitOdts ==
    /\ InitNoAux
    /\ budget = NoBudget
    /\ daq = <<>>
    /\ \E n \in 1..MaxVars : \E size \in [1..n -> VarSizes] :
          daq_list = [obj |-> NewDaqList(0, 0),
                      variables |-> [k \in 1..n |-> [name |-> k, size |-> size[k]]],
                      ret |-> <<>>, pc |-> "new"]

NextOdts == CreateOdtsCall

SpecOdts == InitOdts /\ [][NextOdts]_vars

(***************************************************************************)
(* xcp_daq: Daq keeps the variables registered per acquisition event       *)
(* (acq_register), the DAQ lists built for a start (acq_set) and the       *)
(* variable lists of their ODTs (odt_set), the index of odt_set being the  *)
(* PID of the packets store_records decodes.                               *)
(***************************************************************************)
Events == 0..3      \* AcqTasks: ONE_MS, TEN_MS, HUNDRED_MS, FIVE_HUNDRED_MS

\* the symbols of the loaded A2L file, with their sizes in bytes
Symbols == [x |-> 4, y |-> 8]
VarNames == {"x", "y", "q"}

\* `collections.OrderedDict({event.value: list() for event in AcqTasks})`
EmptyRegister == [e \in Events |-> <<>>]

\* Daq.__init__; master: what the XCP master was told since its last freeDaq
\* (the DAQ lists allocated, then [daq, odts] of every allocOdt); records: the
\* [pid, variables] of every packet store_records has decoded
NewDaq == [acq_register |-> EmptyRegister, acq_set |-> <<>>, odt_set |-> <<>>,
           selected_variables |-> <<>>,
           master |-> [daqs |-> 0, odts |-> <<>>], records |-> <<>>]

\* is_already_register: the XcpVar selected under that name, if any
Selected(variable) ==
    SelectSeq(daq.selected_variables, LAMBDA v : v.name = variable)

\* register_variable, with select_variable: a name the symbols do not hold
\* raises UnknownSymbolError before anything is changed
RegisterVariable(variable, event) ==
    /\ daq # <<>>
    /\ budget.register > 0
    /\ budget' = Spend("register")
    /\ IF Selected(variable) # <<>>
       THEN /\ daq' = [daq EXCEPT !.acq_register[event] = Append(@, Selected(variable)[1])]
            /\ UNCHANGED raised
       ELSE IF variable \notin DOMAIN Symbols
       THEN /\ raised' = Raise("register_variable", "UnknownSymbolError")
            /\ UNCHANGED daq
       ELSE LET xcp_var == [name |-> variable, size |-> Symbols[variable]] IN
            /\ daq' = [daq EXCEPT !.selected_variables = Append(@, xcp_var),
                                  !.acq_register[event] = Append(@, xcp_var)]
            /\ UNCHANGED raised
    /\ UNCHANGED <<ctorVars, connVars, kind, lock, flagVars, queueVars, is_instance, threadVars,
                   channel, caller, next_id, observed, logVars, daq_list>>

\* create_acquisition_set, from event on: `for event, var_list in
\* self.acq_register.items(): if var_list:` a DaqList numbered count is built
\* and appended to acq_set, the variable lists of its ODTs to odt_set
RECURSIVE CreateAcquisitionSet(_, _, _)
CreateAcquisitionSet(d, event, count) ==
    IF event \notin Events THEN d
    ELSE LET var_list == d.acq_register[event] IN
         IF var_list = <<>> THEN CreateAcquisitionSet(d, event + 1, count)
         ELSE LET odts == CreateOdts(NewDaqList(count, event).odts, var_list)
                  made == [NewDaqList(count, event) EXCEPT !.odts = odts]
              IN CreateAcquisitionSet([d EXCEPT !.acq_set = Append(@, made),
                                                !.odt_set = @ \o OdtVariables(odts)],
                                      event + 1, count + 1)

\* allocate_daq and allocate_odt: allocDaq(len(acq_set)), then
\* allocOdt(daq_list.number, len(daq_list.odts)) for every DaqList of acq_set
Allocate(acq_set) ==
    [daqs |-> Len(acq_set),
     odts |-> [k \in 1..Len(acq_set) |->
                  [daq |-> acq_set[k].number, odts |-> Len(acq_set[k].odts)]]]

\* start_acquisition: freeDaq, create_acquisition_set, the allocations
StartAcquisition ==
    /\ daq # <<>>
    /\ budget.start > 0
    /\ budget' = Spend("start")
    /\ LET built == CreateAcquisitionSet(daq, 0, 0) IN
          daq' = [built EXCEPT !.master = Allocate(built.acq_set)]
    /\ UNCHANGED <<auxVars, daq_list>>

\* stop_acquisition, with store_records: every packet of the queue is decoded
\* with odt_set[pid]; the queue holds nothing, or one packet of an ODT
StopAcquisition ==
    /\ daq # <<>>
    /\ budget.halt > 0
    /\ budget' = Spend("halt")
    /\ \E daqQueue \in {<<>>} \cup {<<pid>> : pid \in 0..(Len(daq.odt_set) - 1)} :
          daq' = [daq EXCEPT !.records =
                     @ \o [k \in 1..Len(daqQueue) |->
                              [pid |-> daqQueue[k], variables |-> daq.odt_set[daqQueue[k] + 1]]]]
    /\ UNCHANGED <<auxVars, daq_list>>

\* reset_acquisition_ressources
ResetAcquisitionRessources ==
    /\ daq # <<>>
    /\ budget.reset > 0
    /\ budget' = Spend("reset")
    /\ daq' = [daq EXCEPT !.acq_register = EmptyRegister, !.acq_set = <<>>, !.odt_set = <<>>]
    /\ UNCHANGED <<auxVars, daq_list>>

(***************************************************************************)
(* SpecDaq: test code registers variables, starts and stops acquisitions   *)
(* and resets the resources, in any order.                                 *)
(***************************************************************************)
MaxRegs == 2        \* register_variable calls
MaxStarts == 2      \* start_acquisition calls

InitDaq ==
    /\ InitNoAux
    /\ daq_list = <<>>
    /\ daq = NewDaq
    /\ budget = [NoBudget EXCEPT !.register = MaxRegs, !.start = MaxStarts, !.halt = 1,
                                 !.reset = 1]

NextDaq ==
    \/ \E variable \in VarNames, event \in Events : RegisterVariable(variable, event)
    \/ StartAcquisition
    \/ StopAcquisition
    \/ ResetAcquisitionRessources

SpecDaq == InitDaq /\ [][NextDaq]_vars

(***************************************************************************)
(* Scheduling. Every thread that can take a step eventually takes one: the *)
(* interpreter schedules every thread, every transport call returns, and   *)
(* every timed wait ends.                                                  *)
(***************************************************************************)
CallerStep(c) ==
    \/ CreateOpenOk(c) \/ CreateOpenFail(c) \/ CreateSpawn(c) \/ CreateMark(c)
    \/ CreateRaise(c)
    \/ RunWait(c)
    \/ StopCmd(c) \/ ProxyStopCmd(c) \/ StopWait(c) \/ StopFlags(c)
    \/ StopJoinRx(c) \/ StopJoinTx(c)

TxStep(t) ==
    /\ t \in 1..Len(tx_threads)
    /\ TxLoop(t) \/ TxGet(t) \/ TxRun(t) \/ ProxyTxLoop(t) \/ ProxyTxRelay(t)

RxStep(r) ==
    /\ r \in 1..Len(rx_threads)
    /\ RxLoop(r) \/ RxRecv(r) \/ ProxyRxRecv(r)

Fairness ==
    /\ \A c \in {1, 2} : WF_vars(c \in Callers /\ CallerStep(c))
    /\ WF_vars(TxStep(1))
    /\ WF_vars(RxStep(1))

FairCom == SpecCom /\ Fairness
FairLoop == SpecLoop /\ Fairness

\* a create_instance called twice starts two pairs of workers
FairLife == SpecLife /\ Fairness /\ WF_vars(TxStep(2)) /\ WF_vars(RxStep(2))

\* the loopback transport hands a frame back: cc_receive does not raise for ever
RxRecvOk(r) ==
    /\ r \in 1..Len(rx_threads)
    /\ RxRecv(r)
    /\ channel'.rx # channel.rx

FairEcho == SpecEcho /\ Fairness /\ SF_vars(RxRecvOk(1))

(***************************************************************************)
(* Properties.                                                             *)
(***************************************************************************)
Ascending(ids) == \A i, j \in 1..Len(ids) : i < j => ids[i] < ids[j]
Ids(q) == [k \in 1..Len(q) |-> q[k].id]

\* the replies taken from the reply sink so far, in the order they were taken
ObservedReplies == SelectSeq(observed, LAMBDA o : o.reply # 0)
\* the commands whose reply was pushed to the reply sink so far, in push order:
\* those already taken, then those still queued
PushedReplies ==
    [k \in 1..Len(ObservedReplies) |-> ObservedReplies[k].reply] \o Ids(used_queue)

AllWorkersDone ==
    /\ \A t \in 1..Len(tx_threads) : tx_threads[t].pc = "done"
    /\ \A r \in 1..Len(rx_threads) : rx_threads[r] = "done"

\* C1: commands are numbered in submission order (next_id); the commands wait
\* in queue_in in that order, their replies are pushed to the reply sink in
\* that order, and the callers take the replies in that order, whichever
\* caller takes which reply.
C1_RepliesFifo ==
    /\ Ascending(Ids(queue_in))
    /\ Ascending(PushedReplies)
    /\ \A k \in 1..Len(PushedReplies) : PushedReplies[k] \in 1..next_id

\* C1 witness: two replies were taken, the second one by a later call than the
\* command it answers (the first call had timed out), and a third is queued.
C1_Witness ==
    /\ Len(ObservedReplies) >= 2
    /\ \E k \in 1..Len(observed) : observed[k].reply # 0 /\ observed[k].reply < observed[k].call
    /\ used_queue # <<>>

\* C2: a stop() called on a ComAux whose workers were started returns, and at
\* the step it returns every worker has ended.
C2_StopTerminates ==
    /\ \A c \in {1, 2} :
          (kind = "ComAux" /\ caller[c].pc = "st_cmd" /\ ~caller[c].nested /\ rx_thread # 0)
             ~> (caller[c].pc = "idle" /\ AllWorkersDone)
    /\ [][\A c \in Callers :
             (caller[c].pc = "st_join_tx" /\ caller'[c].pc = "idle") => AllWorkersDone']_vars

\* C2 witness: stop() has returned after a command that timed out (its reply
\* came late), a send the transport refused, and with an inbound event unread.
C2_Witness ==
    /\ kind = "ComAux"
    /\ budget.stop = 0
    /\ \A c \in Callers : caller[c].pc = "idle"
    /\ rx_thread # 0
    /\ AllWorkersDone
    /\ <<"stop", "AttributeError">> \notin raised
    /\ \E k \in 1..Len(observed) : observed[k].call # 0 /\ observed[k].reply = 0
    /\ \E k \in 1..Len(observed) : observed[k].val = "False"
    /\ queue_out # <<>>

\* C3: a stop() called on a proxy whose workers were started returns, with
\* every worker ended, although no stop command is ever enqueued and whatever
\* the subscribers have left in the connectors.
C3_ProxyStopCompletes ==
    /\ (kind = "ProxyAuxiliary" /\ caller[1].pc = "st_cmd" /\ ~caller[1].nested /\ rx_thread # 0)
          ~> (caller[1].pc = "idle" /\ AllWorkersDone /\ queue_in = <<>>)
    /\ [][(caller[1].pc = "st_join_tx" /\ caller'[1].pc = "idle")
             => (AllWorkersDone' /\ stop_tx' /\ stop_rx')]_vars

\* C3 witness: stop() has returned while a subscriber's message is still
\* waiting in its connector and another one holds an unread entry.
C3_Witness ==
    /\ kind = "ProxyAuxiliary"
    /\ budget.stop = 0
    /\ caller[1].pc = "idle"
    /\ rx_thread # 0
    /\ AllWorkersDone
    /\ raised = {}
    /\ \E s \in DOMAIN conn_in : conn_in[s] # <<>>
    /\ \E s \in DOMAIN conn_out : conn_out[s] # <<>>

\* everything ever put on the queue_out of connector s, in order: what the
\* subscriber has taken, then what still waits
OutHist(s) == received[s] \o conn_out[s]
Msgs(q) == [k \in 1..Len(q) |-> q[k].msg]
Frames(q) == [k \in 1..Len(q) |-> Frame(q[k].msg, q[k].src)]
\* what the dispatch put on connector b for a command taken from connector a
DispatchedFrom(a, b) == SelectSeq(OutHist(b), LAMBDA e : e.via = "dispatch" /\ e.src = a)
\* what the reception worker put on connector s
Broadcasted(s) == SelectSeq(OutHist(s), LAMBDA e : e.via = "receive")
\* the messages the relay took from connector a (an entry without msg is sent
\* to the transport but is no message to dispatch)
TakenMsgs(a) == SelectSeq(relayed[a], LAMBDA kw : kw.msg # None)

\* C4: with three subscribers, every message the relay has taken from a
\* connector's queue_in is on the queue_out of each of the two other
\* connectors, in the order taken, and the dispatch has put nothing taken from
\* a connector on that connector's own queue_out.
C4_NoSelfEcho ==
    \A a \in DOMAIN conn_out :
        /\ DispatchedFrom(a, a) = <<>>
        /\ \A b \in DOMAIN conn_out \ {a} : Msgs(DispatchedFrom(a, b)) = Msgs(TakenMsgs(a))

\* C4 witness: a message taken from connector 1 is on the queue_out of 2 and
\* of 3, while the queue_out of 1 holds entries of other origin.
C4_Witness ==
    /\ Len(proxy_channels) = 3
    /\ TakenMsgs(1) # <<>>
    /\ DispatchedFrom(1, 2) # <<>>
    /\ DispatchedFrom(1, 3) # <<>>
    /\ Len(OutHist(1)) >= 2

\* C5: the payloads the reception worker received from the transport are on
\* the queue_out of every connector, all of them and in the order received,
\* whatever the connector already holds.
C5_Broadcast ==
    \A s \in DOMAIN conn_out : Frames(Broadcasted(s)) = phys_rcv

\* C5 witness: a payload arrived while a connector held an unread entry; it
\* was put behind it, and another subscriber has already taken it.
C5_Witness ==
    /\ phys_rcv # <<>>
    /\ \E s \in DOMAIN conn_out :
          /\ Len(conn_out[s]) >= 2
          /\ conn_out[s][1].via = "dispatch"
          /\ conn_out[s][2].via = "receive"
    /\ \E s \in DOMAIN conn_out :
          /\ conn_out[s] = <<>>
          /\ \E k \in 1..Len(received[s]) : received[s][k].via = "receive"

Checked(ref) == ref.how \in {"instance", "module"}

C8_Original ==
    ctor # "init" =>
       \/ ctor = "ok" /\ Len(proxy_channels) = Len(aux_list)
       \/ ctor = "NotImplementedError"
       \/ ctor = "ResolutionError" /\ \E k \in 1..Len(aux_list) : aux_list[k].how = "unknown"

\* both workers of the last create_instance are alive
WorkersAlive ==
    /\ tx_thread # 0 /\ tx_threads[tx_thread].pc # "done"
    /\ rx_thread # 0 /\ rx_threads[rx_thread] # "done"

\* C9 as stated: a create_instance that fails raises AuxiliaryCreationError and
\* nothing else.
C9_Original ==
    \A e \in raised : e[1] = "create_instance" => e[2] = "AuxiliaryCreationError"

\* C10 as stated: whenever no call is in progress, is_instance is true exactly
\* when both workers are alive and the transport is open.
C10_Original ==
    (\A c \in Callers : caller[c].pc = "idle") =>
        (is_instance <=> (WorkersAlive /\ channel.open))

\* the calls of op that have returned, in order
Returned(op) == SelectSeq(returned, LAMBDA r : r.op = op)

\* C11: delete_instance raises nothing, returns True and leaves is_instance
\* false, whether channel.close() raised or not.
C11_DeleteNeverRaises ==
    /\ [](/\ \A e \in raised : e[1] # "delete_instance"
          /\ \A k \in 1..Len(returned) :
                returned[k].op = "delete_instance" => returned[k].val = "True"
          /\ budget.delete = 0 => Returned("delete_instance") # <<>>)
    /\ [][budget'.delete < budget.delete => ~is_instance']_vars

\* C11 witness: after a create_instance that succeeded, a delete_instance whose
\* channel.close() raised (the transport is still open) has returned True and
\* cleared is_instance.
C11_Witness ==
    /\ \A c \in Callers : caller[c].pc = "idle"
    /\ budget.create = 1 /\ tx_thread # 0
    /\ Returned("delete_instance") # <<>>
    /\ channel.open
    /\ ~is_instance

\* the caller waits on the reply sink, in run_command
Waiting(c) == caller[c].pc \in {"rc_wait", "st_wait"}
Last(q) == q[Len(q)]

\* C12: every run_command that waits on the reply sink returns; it raises
\* nothing, and when the reply sink holds nothing at the end of the wait the
\* value returned is None.
C12_RunCommandReturns ==
    /\ \A c \in {1, 2} : Waiting(c) ~> ~Waiting(c)
    /\ [](\A e \in raised : e[1] # "run_command")
    /\ [][\A c \in Callers :
             (Waiting(c) /\ ~Waiting(c)') =>
                /\ raised' = raised
                /\ Len(observed') = Len(observed) + 1
                /\ Last(observed').call = caller[c].cmd
                /\ QueueEmpty(used_queue) => Last(observed').val = None]_vars

\* C12 witness: the run_command of stop(), blocking with the default timeout,
\* has returned None (the worker was busy), and so has a run_command submitted
\* after it, whose command no worker takes any more.
C12_Witness ==
    /\ kind = "ComAux"
    /\ AllWorkersDone /\ tx_thread # 0
    /\ \E k, n \in 1..Len(observed) :
          /\ observed[k].call # 0 /\ observed[k].val = None
          /\ submitted[observed[k].call].cmd = "stop"
          /\ observed[n].call > observed[k].call /\ observed[n].val = None
          /\ \A d \in 1..Len(dequeued) : dequeued[d].id # observed[n].call

\* the command worker t has executed the command it held and put its reply
Executed(t) == tx_threads[t].pc = "run" /\ tx_threads'[t].pc = "loop"

\* C13: the reply the command worker of a ComAux puts for a "send" command is
\* True exactly when the payload went to the transport, and False when the
\* send raised and nothing went out; for any other command it is False and
\* nothing goes to the transport.
C13_SendReply ==
    [][\A t \in 1..Len(tx_threads) :
          Executed(t) =>
             LET c == tx_threads[t].cmd
                 r == Last(used_queue')
                 forwarded == channel'.tx = Append(channel.tx, Frame(c.data, 1))
             IN /\ kind = "ComAux"
                /\ Len(used_queue') = Len(used_queue) + 1
                /\ r.id = c.id
                /\ r.val \in {"True", "False"}
                /\ forwarded \/ channel' = channel
                /\ c.cmd = "send" => (r.val = "True" <=> forwarded)
                /\ c.cmd = "send" /\ Len(sends') > Len(sends) =>
                      (Last(sends').ok <=> r.val = "True")
                /\ c.cmd # "send" => r.val = "False" /\ ~forwarded]_vars

\* C13 witness: a caller got True for a "send" whose payload is on the
\* transport, and a caller got False for an unknown command.
C13_Witness ==
    \E k, n \in 1..Len(observed) :
       /\ observed[k].reply # 0 /\ observed[n].reply # 0
       /\ submitted[observed[k].reply].cmd = "send" /\ observed[k].val = "True"
       /\ submitted[observed[n].reply].cmd = "unknown" /\ observed[n].val = "False"
       /\ channel.tx = <<Frame(submitted[observed[k].reply].data, 1)>>

\* the inbound events handed to callers so far, in the order of the calls
Delivered == SelectSeq(returned, LAMBDA r : r.ev # <<>>)
DeliveredEvents == [k \in 1..Len(Delivered) |-> Delivered[k].ev[1]]
\* the payloads the transport took without raising, in the order it took them
OkSends == SelectSeq(sends, LAMBDA e : e.ok)
SentPayloads == [k \in 1..Len(OkSends) |-> OkSends[k].data]

\* C14: over a loopback transport every payload the transport took is handed
\* to the callers of receive_message / wait_and_get_report exactly once and in
\* order: what was returned, then what waits in queue_out, then what the
\* transport still holds, is the sequence of payloads sent. receive_message
\* returns the payload of the event it took, and None when it took none. A
\* send_message that got the True of its own command has its payload among
\* those sent, and every payload sent reaches queue_out.
C14_Echo ==
    /\ [](Msgs(DeliveredEvents) \o Msgs(queue_out) \o Msgs(channel.rx) = SentPayloads)
    /\ [](\A k \in 1..Len(returned) :
             returned[k].op = "receive_message" =>
                returned[k].val = IF returned[k].ev = <<>> THEN None
                                  ELSE returned[k].ev[1].msg)
    /\ [](\A k \in 1..Len(observed) :
             /\ observed[k].reply = observed[k].call
             /\ observed[k].val = "True"
             => \E n \in 1..Len(OkSends) : OkSends[n].id = observed[k].call)
    /\ [][Len(returned') > Len(returned) /\ QueueEmpty(queue_out)
             => Last(returned').val = None]_vars
    /\ \A n \in 1..MaxCmds :
          (Len(OkSends) >= n) ~> (Len(Delivered) + Len(queue_out) >= n)

\* C14 witness: the send of a payload got True, the first receive_message
\* returned the payload and the second one returned None.
C14_Witness ==
    /\ Len(sends) = 1
    /\ Len(observed) = 1
    /\ observed[1] = [call |-> 1, reply |-> 1, val |-> "True"]
    /\ returned = <<[op |-> "receive_message", ev |-> <<Frame(sends[1].data, 1)>>,
                     val |-> sends[1].data],
                    [op |-> "receive_message", ev |-> <<>>, val |-> None]>>

\* a call of wait_and_get_report (directly or through receive_message) returns
Reported == Len(returned') = Len(returned) + 1 /\ Last(returned').op # "delete_instance"

\* C15: wait_and_get_report returns None when queue_out is empty, and otherwise
\* takes the oldest event out of queue_out and returns it; the events returned
\* so far followed by those still in queue_out are the events the reception
\* worker captured, in the order it captured them, so that none is returned
\* twice.
C15_ReportFifo ==
    /\ [](DeliveredEvents \o queue_out = phys_rcv)
    /\ [][Reported =>
             IF QueueEmpty(queue_out)
             THEN Last(returned').ev = <<>> /\ queue_out' = queue_out
             ELSE /\ Last(returned').ev = <<Head(queue_out)>>
                  /\ queue_out' = Tail(queue_out)]_vars

\* C15 witness: a first wait_and_get_report found queue_out empty and returned
\* None, a second one returned the first of two captured events, and the
\* second event is still queued.
C15_Witness ==
    /\ Len(phys_rcv) = 2
    /\ phys_rcv[1] # phys_rcv[2]
    /\ returned = <<[op |-> "wait_and_get_report", ev |-> <<>>, val |-> None],
                    [op |-> "wait_and_get_report", ev |-> <<phys_rcv[1]>>, val |-> None]>>
    /\ queue_out = <<phys_rcv[2]>>

\* C16: run_command on a proxy returns True in one step and changes nothing
\* else: not queue_in, not the queues of the bound channels, not the transport,
\* not the lock, not the flags, not the workers.
C16_ProxyRunCommandNoOp ==
    [][kind = "ProxyAuxiliary" /\ budget'.cmd < budget.cmd =>
          /\ observed' = Append(observed, [call |-> 0, reply |-> 0, val |-> "True"])
          /\ \A c \in Callers : caller[c].pc = "idle" => caller'[c].pc = "idle"
          /\ UNCHANGED <<queueVars, connVars, channel, lock, flagVars, threadVars,
                         is_instance, raised, next_id, caller, logVars>>]_vars

\* C16 witness: run_command has returned True on a running proxy while a
\* message of a subscriber waits in its queue.
C16_Witness ==
    /\ kind = "ProxyAuxiliary"
    /\ WorkersAlive
    /\ budget.cmd = 0
    /\ \E k \in 1..Len(observed) : observed[k].val = "True"
    /\ \E s \in DOMAIN conn_in : conn_in[s] # <<>>

\* a public call of caller c is in progress
Busy(c) == caller[c].pc # "idle"

\* C17: whatever the public calls and their order, every call in progress
\* returns, given that every thread is scheduled and every transport call
\* returns. (It does not: after create_instance, delete_instance and a second
\* create_instance two command workers wait on queue_in, the "stop" of stop()
\* goes to one of them, and stop() joins the other one for ever.)
C17_Original == \A c \in {1, 2} : (c \in Callers /\ Busy(c)) ~> (c \in Callers /\ ~Busy(c))

\* C18: the reply a run_command call takes from the reply sink is the reply to
\* the command this call put on queue_in. (It need not be: a call that returned
\* None before its reply was put leaves that reply to the next call.)
C18_Original ==
    \A k \in 1..Len(observed) :
       observed[k].reply # 0 => observed[k].reply = observed[k].call

\* the "send" commands put on queue_in so far, in the order they were put
SubmittedSends == SelectSeq(submitted, LAMBDA s : s.cmd = "send")
IsPrefix(p, q) == Len(p) <= Len(q) /\ \A k \in 1..Len(p) : p[k] = q[k]
\* the command worker waits for a command and none is queued
TxWaiting == tx_thread # 0 /\ tx_threads[tx_thread].pc = "get" /\ QueueEmpty(queue_in)

\* C19: the payloads the command worker of a ComAux has handed to cc_send are,
\* in order, those of the first "send" commands put on queue_in; once the
\* worker has nothing left to take they are those of all of them; and the
\* transport holds, in the same order, the payloads it took without raising.
C19_SendOrder ==
    /\ IsPrefix([k \in 1..Len(sends) |-> [id |-> sends[k].id, data |-> sends[k].data]],
                [k \in 1..Len(SubmittedSends) |->
                    [id |-> SubmittedSends[k].id, data |-> SubmittedSends[k].data]])
    /\ TxWaiting => Len(sends) = Len(SubmittedSends)
    /\ Msgs(channel.tx) = SentPayloads

\* C19 witness: two "send" commands with different payloads, the first from a
\* call that returned None before the reply, have been executed, and the
\* transport holds the two payloads in the order of submission.
C19_Witness ==
    /\ Len(sends) = 2
    /\ sends[1].data # sends[2].data
    /\ observed[1].val = None
    /\ channel.tx = <<Frame(submitted[1].data, 1), Frame(submitted[2].data, 1)>>
    /\ TxWaiting

\* command id waits in queue_in / has been taken by a command worker
Pending(id) == \E k \in 1..Len(queue_in) : queue_in[k].id = id
Dequeued(id) == \E k \in 1..Len(dequeued) : dequeued[k].id = id
\* the instance exists, its workers run and stop() has not set the flags
Live == is_instance /\ WorkersAlive /\ ~stop_tx /\ ~stop_rx

\* C20: no command is taken twice from queue_in, and a command that waits in
\* queue_in of a live auxiliary is eventually taken by the command worker.
\* (The second part fails: stop() sets the flags as soon as its run_command
\* returns, with a late reply of an earlier command or with None, and the
\* worker leaves its loop at the next test of stop_tx with commands queued.)
C20_Original ==
    /\ [](\A i, j \in 1..Len(dequeued) : dequeued[i].id = dequeued[j].id => i = j)
    /\ \A id \in 1..(MaxCmds + 1) : (Live /\ Pending(id)) ~> Dequeued(id)

\* command id is the "stop" command
IsStop(id) == submitted[id].cmd = "stop"
\* the replies to command id pushed to the reply sink so far
RepliesTo(id) == SelectSeq(PushedReplies, LAMBDA r : r = id)

\* C21: the step in which a command worker takes the "stop" command puts one
\* True on the reply sink and ends the worker; a worker that has ended stays
\* ended; the "stop" command is the last command its worker took and has
\* exactly one reply; and the commands put on queue_in after it are neither
\* taken, nor handed to the transport, nor replied to.
C21_StopEndsWorker ==
    /\ [][\A t \in 1..Len(tx_threads) :
             /\ (tx_threads[t].pc = "get" /\ Len(dequeued') > Len(dequeued)
                   /\ IsStop(Last(dequeued').id))
                => /\ used_queue' = Append(used_queue,
                                           [val |-> "True", id |-> Last(dequeued').id])
                   /\ tx_threads'[t].pc = "done"
             /\ tx_threads[t].pc = "done" => tx_threads'[t].pc = "done"]_vars
    /\ [](\A k \in 1..Len(dequeued) :
             IsStop(dequeued[k].id) =>
                /\ k = Len(dequeued)
                /\ tx_threads[dequeued[k].t].pc = "done"
                /\ Len(RepliesTo(dequeued[k].id)) = 1
                /\ \A id \in (dequeued[k].id + 1)..next_id :
                      /\ Pending(id) /\ ~Dequeued(id)
                      /\ RepliesTo(id) = <<>>
                      /\ \A n \in 1..Len(sends) : sends[n].id # id)

\* C21 witness: the worker has taken the "stop" command and ended, and a "send"
\* command put on queue_in after it is still there.
C21_Witness ==
    \E k \in 1..Len(dequeued) :
       /\ IsStop(dequeued[k].id)
       /\ tx_threads[dequeued[k].t].pc = "done"
       /\ \E n \in 1..Len(queue_in) :
             queue_in[n].id > dequeued[k].id /\ queue_in[n].cmd = "send"

\* stop() is about to submit its "stop" command (not from a failing hook)
StopCalled == \E c \in Callers : caller[c].pc = "st_cmd" /\ ~caller[c].nested
\* the command worker took the "stop" command, and every command submitted
\* before it
StopObserved == \E k \in 1..Len(dequeued) : IsStop(dequeued[k].id)
Drained == \A id \in 1..next_id : IsStop(id) => \A b \in 1..(id - 1) : Dequeued(b)

\* C22: after a stop() on a live ComAux the command worker ends only once it
\* has taken the "stop" command and, before it, every command submitted
\* earlier. (It does not: stop() sets stop_tx when its own run_command returns,
\* with the late reply of an earlier command or with None, and the worker
\* ends at its next test of stop_tx with those commands still queued.)
C22_Original ==
    [](Live /\ StopCalled =>
          [](tx_thread # 0 /\ tx_threads[tx_thread].pc = "done" => StopObserved /\ Drained))

\* command worker t waits in queue_in.get() on an empty queue although stop_tx
\* is set: nothing will wake it
LeftBlocked(t) == tx_threads[t].pc = "get" /\ QueueEmpty(queue_in) /\ stop_tx

\* C23: on a ComAux no stop flag is set before a "stop" command was put on
\* queue_in, and no command worker is left waiting on an empty queue_in with
\* stop_tx set. (The first part holds. The second does not once two command
\* workers run, after create_instance, delete_instance, create_instance: the
\* single "stop" command ends one of them and the other one is left waiting.)
C23_Original ==
    kind = "ComAux" =>
       /\ stop_tx \/ stop_rx => \E id \in 1..Len(submitted) : IsStop(id)
       /\ \A t \in 1..Len(tx_threads) : ~LeftBlocked(t)

\* what a command worker puts on the reply sink: the value of _run_command, or
\* the True that acknowledges "stop", for a command that was submitted
IsReply(e) == e.val \in {"True", "False"} /\ e.id \in 1..next_id
\* x is one of the events the reception worker captured
IsCaptured(x) == \E k \in 1..Len(phys_rcv) : phys_rcv[k] = x

\* C24: the reply sink holds replies only and queue_out holds captured events
\* only; a step of a command worker leaves queue_out alone and a step of a
\* reception worker leaves the reply sink alone; run_command returns a reply
\* or None, and wait_and_get_report / receive_message return a captured event
\* or None.
C24_TwoQueues ==
    /\ [](\A k \in 1..Len(used_queue) : IsReply(used_queue[k]))
    /\ [](\A k \in 1..Len(queue_out) : IsCaptured(queue_out[k]))
    /\ [](\A k \in 1..Len(observed) : observed[k].val \in {"True", "False", None})
    /\ [](\A k \in 1..Len(returned) :
             returned[k].op # "delete_instance" =>
                \/ returned[k].ev = <<>>
                \/ Len(returned[k].ev) = 1 /\ IsCaptured(returned[k].ev[1]))
    /\ [][/\ tx_threads' # tx_threads => queue_out' = queue_out
          /\ rx_threads' # rx_threads => used_queue' = used_queue]_vars

\* C24 witness: a reply waits on the reply sink while an event waits in
\* queue_out, run_command has returned a reply and receive_message an event.
C24_Witness ==
    /\ ~QueueEmpty(used_queue)
    /\ ~QueueEmpty(queue_out)
    /\ \E k \in 1..Len(observed) : observed[k].val = "True"
    /\ \E k \in 1..Len(returned) :
          returned[k].op = "receive_message" /\ returned[k].ev # <<>>

\* a cc_send has raised / a cc_receive has raised with a frame waiting
SendFailed == \E k \in 1..Len(sends) : ~sends[k].ok
ReceiveFailed == budget.rcv_fail < MaxRcvFails

\* C25: a send that raises gives the reply False and leaves the command worker
\* in its loop; a receive that raises leaves the frame on the transport and
\* the reception worker in its loop; no exception leaves a worker. After a
\* send has failed every command waiting in queue_in is still replied to, and
\* after a receive has failed a frame waiting on the transport is still
\* captured.
C25_WorkersSurvive ==
    /\ [][\A t \in 1..Len(tx_threads) :
             (Executed(t) /\ Len(sends') > Len(sends) /\ ~Last(sends').ok) =>
                /\ Last(used_queue') = [val |-> "False", id |-> Last(sends').id]
                /\ tx_threads'[t].pc = "loop"
                /\ raised' = raised]_vars
    /\ [][budget'.rcv_fail < budget.rcv_fail =>
             /\ channel' = channel
             /\ \A r \in 1..Len(rx_threads) :
                   rx_threads'[r] # rx_threads[r] => rx_threads'[r] = "loop"
             /\ raised' = raised]_vars
    /\ [](\A e \in raised : e[1] \notin {"_transmit_task", "_reception_task"})
    /\ \A id \in 1..MaxCmds :
          (SendFailed /\ Pending(id)) ~> (Len(RepliesTo(id)) = 1)
    /\ \A n \in 0..MaxCmds :
          (ReceiveFailed /\ channel.rx # <<>> /\ Len(phys_rcv) = n) ~> (Len(phys_rcv) > n)

\* C25 witness: the first send raised and the second one went out and was
\* replied to; the receive raised while the frame of the second send waited,
\* and the frame was captured afterwards.
C25_Witness ==
    /\ Len(sends) = 2
    /\ ~sends[1].ok /\ sends[2].ok
    /\ Len(RepliesTo(2)) = 1
    /\ ReceiveFailed
    /\ phys_rcv = <<Frame(sends[2].data, 1)>>

\* C26: no exception leaves the command worker of a proxy, and the worker ends
\* only after stop_tx was set. (It does not hold: _run_command calls cc_send
\* outside any try, so that an exception of the transport leaves
\* _transmit_task and ends the thread.)
C26_Original ==
    kind = "ProxyAuxiliary" =>
       /\ \A e \in raised : e[1] # "_transmit_task"
       /\ \A t \in 1..Len(tx_threads) : tx_threads[t].pc = "done" => stop_tx

\* the frames of connector a that the transport took, in the order it took them
SentFrom(a) == SelectSeq(channel.tx, LAMBDA f : f.src = a)
\* cc_send has raised in the relay
RelayFailed == <<"_transmit_task", "Exception">> \in raised

Passed(t) ==
    IF tx_threads[t].pc = "relay" THEN 1..(tx_threads[t].i - 1)
    ELSE 1..Len(proxy_channels)

\* C28: the relay worker serves the connectors in the order of proxy_channels,
\* and once it is past a connector whose queue_in held an entry when the pass
\* began, it has taken that entry and handed it to cc_send; so has it, for
\* every connector, when the pass is over. (It has not when cc_send raised for
\* a connector served earlier in the pass: the exception ends the worker and
\* the entries of the connectors behind are left where they are.)
C28_Original ==
    kind = "ProxyAuxiliary" =>
       \A t \in 1..Len(tx_threads) :
          \A k \in Passed(t) :
             LET s == proxy_channels[k] IN
             pass_start[s] > 0 => Len(relayed[s]) >= pass_start[s]

\* C29: what the relay took from a connector, what the transport got from it
\* and what was dispatched from it to each other connector are, in this order,
\* the first messages its subscriber sent; and what the reception worker put on
\* each connector's queue_out are the payloads the transport handed back, in
\* the order in which it took them.
C29_SubscriberFifo ==
    /\ \A a \in DOMAIN conn_in :
          /\ Msgs(relayed[a]) \o [k \in 1..Len(conn_in[a]) |-> conn_in[a][k].kwargs.msg]
                = sub_sent[a]
          /\ IsPrefix(Msgs(SentFrom(a)), sub_sent[a])
          /\ \A b \in DOMAIN conn_out \ {a} :
                IsPrefix(Msgs(DispatchedFrom(a, b)), sub_sent[a])
    /\ \A s \in DOMAIN conn_out :
          IsPrefix(Frames(Broadcasted(s)), channel.tx)

\* C29 witness: subscriber 1 sent two different messages; the transport and
\* subscriber 2 got them in that order, by dispatch and by broadcast.
C29_Witness ==
    /\ Len(sub_sent[1]) = 2 /\ sub_sent[1][1] # sub_sent[1][2]
    /\ Msgs(channel.tx) = sub_sent[1]
    /\ Msgs(DispatchedFrom(1, 2)) = sub_sent[1]
    /\ Msgs(Broadcasted(2)) = sub_sent[1]
    /\ Len(conn_out[2]) >= 2

\* no run_command has returned without a reply so far (no timeout, no
\* non-blocking call that found the reply sink empty)
NoTimeout == \A k \in 1..Len(observed) : observed[k].reply # 0
\* a step of the command worker or of the reception worker
WorkerStep ==
    \/ \E t \in 1..Len(tx_threads) : TxLoop(t) \/ TxGet(t) \/ TxRun(t)
    \/ \E r \in 1..Len(rx_threads) : RxLoop(r) \/ RxRecv(r)

\* C30: a caller that waits for a reply holds the lock, so at most one caller
\* is between its submission and the end of its wait, and no command is
\* submitted meanwhile; as long as no call has returned without a reply, each
\* call got the reply to its own command; and no step of a worker changes the
\* lock.
C30_LockSerializes ==
    /\ [](/\ \A c \in Callers : Waiting(c) => lock.owner = c /\ caller[c].cmd = next_id
          /\ \A c, d \in Callers : Waiting(c) /\ Waiting(d) => c = d
          /\ NoTimeout => \A k \in 1..Len(observed) : observed[k].reply = observed[k].call)
    /\ [][/\ \A c \in Callers :
                Waiting(c) => submitted' = submitted \/ lock.owner # c
          /\ \A c \in Callers :
                Waiting(c) /\ ~Waiting(c)' /\ NoTimeout' =>
                   Last(observed').reply = caller[c].cmd
          /\ WorkerStep => lock' = lock]_vars

\* C30 witness: caller 2 holds the lock and waits for the reply to the second
\* command, which the worker has pushed, while caller 1 is at the submission
\* of stop(); the first command got its own reply.
C30_Witness ==
    /\ caller[2].pc = "rc_wait" /\ caller[2].cmd = 2 /\ lock.owner = 2
    /\ caller[1].pc = "st_cmd"
    /\ Len(observed) = 1 /\ observed[1].reply = 1 /\ observed[1].call = 1
    /\ used_queue # <<>> /\ Head(used_queue).id = 2

\* the logging of a trace record has raised
TraceFailed == budget.trace_fail < MaxTraceFails

\* C31: when the logging of an arrival's trace record raises, the payload is
\* still put on every connector's queue_out (what the reception worker has
\* broadcast to a connector are the payloads cc_receive returned, in order),
\* and the reception worker has not ended unless stop_rx is set.
\* (The first part fails: the trace record is written inside the try block
\* that holds the broadcast, ahead of it.)
C31_Original ==
    kind = "ProxyAuxiliary" =>
       /\ \A s \in DOMAIN conn_out : Frames(Broadcasted(s)) = phys_rcv
       /\ TraceFailed /\ ~stop_rx /\ rx_thread # 0 => rx_threads[rx_thread] # "done"

\* the reception worker r ends a poll in which cc_receive returned a payload
Received(r) ==
    /\ rx_threads[r] = "recv" /\ rx_threads'[r] = "loop"
    /\ Len(channel'.rx) < Len(channel.rx)
    /\ Head(channel.rx).msg # None

\* C32: what the reception worker of a ComAux has pushed onto queue_out (what
\* was read from it, then what it holds) is what cc_receive returned, each
\* payload once and in the order of arrival; over the loopback transport
\* these are the payloads sent, in order, less those still on the transport;
\* and a poll that returns a payload pushes it in the same step, with stop_rx
\* set or not.
C32_ReceptionPushes ==
    /\ [](DeliveredEvents \o queue_out = phys_rcv)
    /\ [](Msgs(phys_rcv) \o Msgs(channel.rx) = SentPayloads)
    /\ [][\A r \in 1..Len(rx_threads) :
             Received(r) =>
                /\ queue_out' = Append(queue_out, Head(channel.rx))
                /\ channel'.rx = Tail(channel.rx)]_vars

\* C32 witness: stop() has set stop_rx and the reception worker has ended; two
\* different payloads came back from the transport, none is left on it, and
\* both are on queue_out in the order of arrival.
C32_Witness ==
    /\ stop_rx /\ rx_thread # 0 /\ rx_threads[rx_thread] = "done"
    /\ Len(phys_rcv) = 2 /\ phys_rcv[1].msg # phys_rcv[2].msg
    /\ channel.rx = <<>>
    /\ queue_out = phys_rcv

\* a step of create_instance, delete_instance or stop() of the proxy
LifeCycleStep ==
    \E c \in Callers :
       \/ CreateEnter(c) \/ CreateOpenOk(c) \/ CreateOpenFail(c) \/ CreateSpawn(c)
       \/ CreateMark(c) \/ CreateRaise(c) \/ DeleteInstance(c)
       \/ StopEnter(c) \/ ProxyStopCmd(c) \/ StopFlags(c) \/ StopJoinRx(c) \/ StopJoinTx(c)

\* C33: no step of create_instance, delete_instance or stop() of a proxy
\* changes a subscriber's is_instance, stop flags or workers, or what the
\* queues of its bound channel hold; the hooks change the transport's state
\* only by opening and closing it; and the flags stop() sets are the proxy's.
C33_SubscribersUntouched ==
    [][LifeCycleStep =>
          /\ sub_aux' = sub_aux
          /\ conn_in' = conn_in /\ conn_out' = conn_out
          /\ channel'.rx = channel.rx /\ channel'.tx = channel.tx]_vars

\* C33 witness: the proxy was created, stopped (both its workers have ended)
\* and deleted, while subscriber 1 is running with its stop flags clear and
\* the message it sent is on subscriber 2's queue_out, dispatched and broadcast.
C33_Witness ==
    /\ budget.create = 0 /\ budget.stop = 0 /\ budget.delete = 0
    /\ \A c \in Callers : caller[c].pc = "idle"
    /\ stop_tx /\ stop_rx /\ ~is_instance /\ ~channel.open
    /\ tx_thread = 1 /\ tx_threads[1].pc = "done" /\ rx_threads[1] = "done"
    /\ raised = {}
    /\ sub_aux[1] = [is_instance |-> TRUE, stop_tx |-> FALSE, stop_rx |-> FALSE,
                     workers |-> "alive"]
    /\ Len(conn_out[2]) = 2 /\ conn_out[2][1].src = 1

\* a create_instance has failed (it raised), and test code has not called stop()
CreateFailed == (\E e \in raised : e[1] = "create_instance") /\ budget.stop = 1

\* C34: after a create_instance that failed, with no stop() called by test
\* code: stop_tx and stop_rx are clear, queue_in holds no "stop" command,
\* is_instance is false when that call was the only one, and once a later
\* create_instance has returned its workers run.
\* (It does not hold: the failing hook calls self.stop().)
C34_Original ==
    CreateFailed =>
       /\ ~stop_tx /\ ~stop_rx
       /\ \A k \in 1..Len(queue_in) : queue_in[k].cmd # "stop"
       /\ budget.create = 1 => ~is_instance
       /\ is_instance /\ (\A c \in Callers : caller[c].pc = "idle") /\ budget.delete = 1
             => WorkersAlive

\* the workers started after the n-th pair take no command and receive nothing
Idle(n) ==
    \A t \in (n + 1)..Len(tx_threads) :
       /\ tx_threads[t].pc \in {"loop", "done"}
       /\ rx_threads[t] \in {"loop", "done"}
       /\ \A k \in 1..Len(dequeued) : dequeued[k].t # t
\* from the moment both flags are set with n pairs of workers started, every
\* later pair stays idle
IdleAfterStop(n) == [](stop_tx /\ stop_rx /\ Len(tx_threads) = n => []Idle(n))

\* C35: a stop flag that is set stays set, whatever is called afterwards; and
\* the workers a create_instance starts once both flags are set end at their
\* first test of the flag: they take no command from queue_in and receive
\* nothing from the transport.
C35_FlagsMonotonic ==
    /\ [][(stop_tx => stop_tx') /\ (stop_rx => stop_rx')]_vars
    /\ IdleAfterStop(0)
    /\ IdleAfterStop(1)

\* C35 witness: stop() has returned, a run_command has left its command on
\* queue_in, and the second create_instance, called afterwards, has started
\* its workers: both have ended, the command is still on queue_in, and
\* is_instance is true.
C35_Witness ==
    /\ kind = "ComAux"
    /\ caller[1].pc = "ci_mark" /\ budget.stop = 0 /\ budget.create = 0
    /\ raised = {}
    /\ stop_tx /\ stop_rx /\ is_instance
    /\ Len(tx_threads) = 2 /\ tx_threads[2].pc = "done" /\ rx_threads[2] = "done"
    /\ \E k \in 1..Len(queue_in) : queue_in[k].cmd = "send"
    /\ \A k \in 1..Len(dequeued) : dequeued[k].t = 1

\* the messages of connector a that the transport took
SentMsgs(a) == SelectSeq(SentFrom(a), LAMBDA f : f.msg # None)

\* C36: every message of a connector that the relay has put on the queue_out
\* of another connector is a message the transport took from that connector,
\* whether a cc_send has raised or not.
\* (It does not hold: the relay dispatches a message before it calls cc_send.)
C36_Original ==
    \A a \in DOMAIN conn_in : \A b \in DOMAIN conn_out \ {a} :
       IsPrefix(Frames(DispatchedFrom(a, b)), SentMsgs(a))

\* C37: queue_out and the reply sink of a proxy are empty in every reachable
\* state, and every wait_and_get_report on a proxy that returns has found
\* nothing (it returns None).
C37_ProxyQueuesEmpty ==
    kind = "ProxyAuxiliary" =>
       /\ QueueEmpty(queue_out) /\ QueueEmpty(used_queue)
       /\ \A k \in 1..Len(returned) :
             returned[k].op = "wait_and_get_report" =>
                returned[k].ev = <<>> /\ returned[k].val = None

\* C37 witness: the reception worker has broadcast an arrival, a run_command
\* on the proxy has returned, and wait_and_get_report was called twice while
\* subscriber 1 had the arrival waiting on its bound channel.
C37_Witness ==
    /\ kind = "ProxyAuxiliary"
    /\ phys_rcv # <<>> /\ ~QueueEmpty(conn_out[1])
    /\ budget.cmd = 0
    /\ Len(Returned("wait_and_get_report")) = 2

RECURSIVE SumSizes(_)
SumSizes(variables) ==
    IF variables = <<>> THEN 0 ELSE Head(variables).size + SumSizes(Tail(variables))
RECURSIVE Flatten(_)
Flatten(lists) == IF lists = <<>> THEN <<>> ELSE Head(lists) \o Flatten(Tail(lists))

\* C38: once create_odts has returned on a fresh DaqList, for a list of one
\* or more variables of at most PACKET_PAYLOAD - PID_LENGTH bytes each: every
\* ODT holds a variable, PID_LENGTH plus the sizes of an ODT's variables is at
\* most PACKET_PAYLOAD, the k-th ODT created has number k - 1, and the
\* variable lists returned are those of the ODTs and, put end to end, the
\* list given.
C38_CreateOdts ==
    daq_list # <<>> /\ daq_list.pc = "done" =>
       LET odts == daq_list.obj.odts IN
       /\ \A k \in 1..Len(odts) :
             /\ odts[k].variables # <<>>
             /\ PID_LENGTH + SumSizes(odts[k].variables) <= PACKET_PAYLOAD
             /\ odts[k].number = k - 1
       /\ daq_list.ret = OdtVariables(odts)
       /\ Flatten(daq_list.ret) = daq_list.variables

\* C38 witness: four variables of 31, 32, 63 and 1 bytes are packed into three
\* ODTs; the first is a full packet of two variables.
C38_Witness ==
    /\ daq_list # <<>> /\ daq_list.pc = "done"
    /\ [k \in 1..Len(daq_list.variables) |-> daq_list.variables[k].size] = <<31, 32, 63, 1>>
    /\ Len(daq_list.obj.odts) = 3
    /\ Len(daq_list.ret[1]) = 2
    /\ PID_LENGTH + SumSizes(daq_list.ret[1]) = PACKET_PAYLOAD

\* the events that have registered variables
RegisteredEvents == {e \in Events : daq.acq_register[e] # <<>>}
\* a start_acquisition returns
Started == budget'.start < budget.start

\* C39: when a start_acquisition returns, acq_set holds one DaqList for each
\* event that has registered variables and no other, the k-th numbered k - 1,
\* and odt_set is the list of the variable lists of their ODTs, in the order
\* of their allocation.
\* (It does not hold: a start adds to the acq_set and odt_set of the start
\* before.)
C39_Original ==
    [][Started =>
          LET acq_set == daq'.acq_set IN
          /\ Len(acq_set) = Cardinality(RegisteredEvents)
          /\ \A k \in 1..Len(acq_set) :
                /\ acq_set[k].number = k - 1
                /\ acq_set[k].event \in RegisteredEvents
          /\ \A i, j \in 1..Len(acq_set) : acq_set[i].event = acq_set[j].event => i = j
          /\ daq'.odt_set = Flatten([k \in 1..Len(acq_set) |-> OdtVariables(acq_set[k].odts)])
          /\ daq'.master.daqs = Cardinality(RegisteredEvents)]_vars

====
